---------------------------- MODULE Spec2Model ----------------------------
(***************************************************************************)
(* TableCompiler: the schema-directed binary encoder                       *)
(* (config_generator/writers.py), the type registry                        *)
(* (config_generator/readers.py) and the generate command (run.py).        *)
(*                                                                         *)
(* Python text is a sequence of one-character strings; the two non-ASCII   *)
(* characters of the model are written "U+00E9" and "U+4E2D", the         *)
(* backslash "U+005C" and the backquote "U+0060".  A Python                *)
(* value is a tagged record:                                               *)
(*   None   [t |-> "none"]          str   [t |-> "str",   s |-> chars]     *)
(*   int    [t |-> "int", n |-> i]  float [t |-> "float", f |-> i] (whole) *)
(*   bool   [t |-> "bool", b |-> B] list  [t |-> "list",  items |-> seq]   *)
(*   dict   [t |-> "dict"]                                                 *)
(* Integers are those of TLC (32 bit), so struct.error for an int out of   *)
(* the 32-bit range is outside the model.                                  *)
(***************************************************************************)
EXTENDS Integers, Sequences, FiniteSets, TLC

VARIABLES
    op,              \* the operation applied last
    arg_value,       \* its value argument (raw_value, v or the table)
    arg_type,        \* its type_syntax_str argument
    h,               \* CustomBinaryDataHandler: writer.buffer, layout_writer, raised error
    loaded_types,    \* TypeSystem._loaded_types
    default_schemas, \* TypeSystem._default_schemas
    opened,          \* the definition files load_type_def has opened, in order
    pc,              \* generate: position in the command
    all_tables,      \* generate: reader.read_all()
    table_idx,       \* generate: index of the table the loop is at
    temp_dir,        \* generate: TEMP_DIR, [exists, data, layout, code]
    output_dir,      \* generate: OUTPUT_DIR, [data, layout, code]
    copy_dest,       \* generate: BINARY_COPY_DEST, [enabled, data]
    targets,         \* generate: the enabled targets of config.toml still to run
    fatal            \* generate: the exception caught at run.py:119, [stage, err]

vars == <<op, arg_value, arg_type, h, loaded_types, default_schemas, opened,
          pc, all_tables, table_idx, temp_dir, output_dir, copy_dest, targets, fatal>>

(***************************************************************************)
(* Bounds of the model.                                                    *)
(***************************************************************************)
MaxStrLen == 3     \* longest enumerated raw cell text
MaxBuffer == 4     \* bytes in a BinaryWriter's buffer after which no write is started
MaxDepth == 8      \* nesting the recursive encoder is followed to
MaxTables == 2     \* tables in one run of generate

(***************************************************************************)
(* Text.                                                                   *)
(***************************************************************************)
Ascii ==
    << " ", "!", "\"", "#", "$", "%", "&", "'", "(", ")", "*", "+", ",", "-", ".", "/",
       "0", "1", "2", "3", "4", "5", "6", "7", "8", "9", ":", ";", "<", "=", ">", "?",
       "@", "A", "B", "C", "D", "E", "F", "G", "H", "I", "J", "K", "L", "M", "N", "O",
       "P", "Q", "R", "S", "T", "U", "V", "W", "X", "Y", "Z", "[", "U+005C", "]", "^", "_",
       "U+0060", "a", "b", "c", "d", "e", "f", "g", "h", "i", "j", "k", "l", "m", "n", "o",
       "p", "q", "r", "s", "t", "u", "v", "w", "x", "y", "z", "{", "|", "}", "~" >>

\* ord(c)
CodePoint(c) ==
    IF c = "U+00E9" THEN 233
    ELSE IF c = "U+4E2D" THEN 20013
    ELSE 31 + (CHOOSE i \in 1..Len(Ascii) : Ascii[i] = c)

\* c.encode('utf-8')
Utf8Char(c) ==
    LET cp == CodePoint(c)
    IN  IF cp < 128 THEN << cp >>
        ELSE IF cp < 2048 THEN << 192 + (cp \div 64), 128 + (cp % 64) >>
        ELSE << 224 + (cp \div 4096), 128 + ((cp \div 64) % 64), 128 + (cp % 64) >>

RECURSIVE Utf8(_)
\* s.encode('utf-8')
Utf8(s) == IF s = << >> THEN << >> ELSE Utf8Char(Head(s)) \o Utf8(Tail(s))

Digits == << "0", "1", "2", "3", "4", "5", "6", "7", "8", "9" >>

IsDigit(c) == \E i \in 1..10 : Digits[i] = c

DigitVal(c) == (CHOOSE i \in 1..10 : Digits[i] = c) - 1

IsSpace(c) == c = " "

RECURSIVE LStrip(_)
LStrip(s) == IF s # << >> /\ IsSpace(Head(s)) THEN LStrip(Tail(s)) ELSE s

RECURSIVE RStrip(_)
RStrip(s) ==
    IF s # << >> /\ IsSpace(s[Len(s)]) THEN RStrip(SubSeq(s, 1, Len(s) - 1)) ELSE s

\* str.strip()
Strip(s) == RStrip(LStrip(s))

StartsWith(s, p) == Len(s) >= Len(p) /\ SubSeq(s, 1, Len(p)) = p

EndsWith(s, p) == Len(s) >= Len(p) /\ SubSeq(s, Len(s) - Len(p) + 1, Len(s)) = p

RECURSIVE NatToStr(_)
NatToStr(n) ==
    IF n < 10 THEN << Digits[n + 1] >> ELSE NatToStr(n \div 10) \o << Digits[(n % 10) + 1] >>

\* str(i) of an int
IntToStr(i) == IF i < 0 THEN << "-" >> \o NatToStr(0 - i) ELSE NatToStr(i)

RECURSIVE DigitsToNat(_, _)
DigitsToNat(s, acc) ==
    IF s = << >> THEN acc ELSE DigitsToNat(Tail(s), 10 * acc + DigitVal(Head(s)))

\* int(s) and float(s) of text, for the decimal integer literals: optional
\* sign, digits, surrounding whitespace; anything else raises ValueError
ParseInt(s) ==
    LET u == Strip(s)
        neg == u # << >> /\ Head(u) = "-"
        d == IF u # << >> /\ Head(u) \in {"-", "+"} THEN Tail(u) ELSE u
    IN  IF d # << >> /\ \A i \in 1..Len(d) : IsDigit(d[i])
        THEN [ok |-> TRUE, n |-> IF neg THEN 0 - DigitsToNat(d, 0) ELSE DigitsToNat(d, 0)]
        ELSE [ok |-> FALSE, n |-> 0]

(***************************************************************************)
(* Python values.                                                          *)
(***************************************************************************)
None == [t |-> "none"]
PyStr(s) == [t |-> "str", s |-> s]
PyInt(i) == [t |-> "int", n |-> i]
PyFloat(i) == [t |-> "float", f |-> i]
PyBool(b) == [t |-> "bool", b |-> b]
PyList(items) == [t |-> "list", items |-> items]
PyDict == [t |-> "dict"]

IsNone(v) == v.t = "none"
IsStr(v) == v.t = "str"
IsList(v) == v.t = "list"
\* isinstance(v, int): bool is a subclass of int
IsInt(v) == v.t \in {"int", "bool"}

\* the int an int or bool holds
IntOf(v) == IF v.t = "bool" THEN (IF v.b THEN 1 ELSE 0) ELSE v.n

\* bool(v)
Truthy(v) ==
    CASE v.t = "none" -> FALSE
      [] v.t = "str" -> v.s # << >>
      [] v.t = "int" -> v.n # 0
      [] v.t = "float" -> v.f # 0
      [] v.t = "bool" -> v.b
      [] v.t = "list" -> v.items # << >>
      [] OTHER -> FALSE

\* int(v): [e |-> "none", n |-> i] or the exception raised
ToInt(v) ==
    CASE v.t = "str" ->
            LET p == ParseInt(v.s)
            IN  IF p.ok THEN [e |-> "none", n |-> p.n] ELSE [e |-> "ValueError", n |-> 0]
      [] v.t = "int" -> [e |-> "none", n |-> v.n]
      [] v.t = "bool" -> [e |-> "none", n |-> IntOf(v)]
      [] v.t = "float" -> [e |-> "none", n |-> v.f]
      [] OTHER -> [e |-> "TypeError", n |-> 0]

RECURSIVE Repr(_)
RECURSIVE ReprItems(_)
\* repr(v); str(v) is the same but for text
Repr(v) ==
    CASE v.t = "none" -> << "N", "o", "n", "e" >>
      [] v.t = "str" -> << "'" >> \o v.s \o << "'" >>
      [] v.t = "int" -> IntToStr(v.n)
      [] v.t = "float" -> IntToStr(v.f) \o << ".", "0" >>
      [] v.t = "bool" -> IF v.b THEN << "T", "r", "u", "e" >> ELSE << "F", "a", "l", "s", "e" >>
      [] v.t = "list" -> << "[" >> \o ReprItems(v.items) \o << "]" >>
      [] OTHER -> << "{", "}" >>
ReprItems(items) ==
    IF items = << >> THEN << >>
    ELSE IF Len(items) = 1 THEN Repr(items[1])
    ELSE Repr(items[1]) \o << ",", " " >> \o ReprItems(Tail(items))

\* str(v)
ToStr(v) == IF v.t = "str" THEN v.s ELSE Repr(v)

(***************************************************************************)
(* struct.pack                                                             *)
(***************************************************************************)
RECURSIVE LEBytes(_, _)
\* the low n bytes of i in two's complement, least significant first
LEBytes(i, n) == IF n = 0 THEN << >> ELSE << i % 256 >> \o LEBytes(i \div 256, n - 1)

RECURSIVE Pow2(_)
Pow2(k) == IF k = 0 THEN 1 ELSE 2 * Pow2(k - 1)

RECURSIVE Log2(_)
Log2(a) == IF a < 2 THEN 0 ELSE 1 + Log2(a \div 2)

\* struct.pack('<f', x) for a whole x with |x| < 2^24: sign, biased exponent, mantissa
Float32Bytes(x) ==
    IF x = 0 THEN << 0, 0, 0, 0 >>
    ELSE LET a == IF x < 0 THEN 0 - x ELSE x
             e == Log2(a)
             mant == (a - Pow2(e)) * Pow2(23 - e)
             biased == e + 127
             sign == IF x < 0 THEN 128 ELSE 0
         IN  << mant % 256, (mant \div 256) % 256,
                (biased % 2) * 128 + (mant \div 65536), sign + (biased \div 2) >>

\* float(v) for the whole numbers: [e |-> "none", f |-> x] or the exception raised
ToFloat(v) ==
    LET r == ToInt(v) IN [e |-> r.e, f |-> r.n]

(***************************************************************************)
(* BinaryWriter and LayoutWriter.  One record holds both and the exception *)
(* that ended the call, "none" while there is none: once an exception is   *)
(* raised nothing more is written.                                         *)
(***************************************************************************)
ReprLimit == 100

NewHandler == [buffer |-> << >>, lines |-> << >>, indent_level |-> 0, err |-> "none"]

Raise(w, e) == IF w.err # "none" THEN w ELSE [w EXCEPT !.err = e]

\* self.buffer += bytes
Emit(w, bytes) == IF w.err # "none" THEN w ELSE [w EXCEPT !.buffer = @ \o bytes]

write_bool(w, v) == Emit(w, << IF Truthy(v) THEN 1 ELSE 0 >>)

write_int(w, v) ==
    IF IsNone(v) THEN Emit(w, LEBytes(0, 4))
    ELSE LET r == ToInt(v)
         IN  IF r.e # "none" THEN Raise(w, r.e) ELSE Emit(w, LEBytes(r.n, 4))

write_long(w, v) ==
    IF IsNone(v) THEN Emit(w, LEBytes(0, 8))
    ELSE LET r == ToInt(v)
         IN  IF r.e # "none" THEN Raise(w, r.e) ELSE Emit(w, LEBytes(r.n, 8))

write_float(w, v) ==
    IF IsNone(v) THEN Emit(w, Float32Bytes(0))
    ELSE LET r == ToFloat(v)
         IN  IF r.e # "none" THEN Raise(w, r.e) ELSE Emit(w, Float32Bytes(r.f))

\* a length prefix that counts characters instead of encoded bytes
write_string_charcount(w, v) ==
    IF IsNone(v) THEN write_int(w, PyInt(0))
    ELSE Emit(write_int(w, PyInt(Len(ToStr(v)))), Utf8(ToStr(v)))

write_string(w, v) ==
    IF IsNone(v) THEN write_int(w, PyInt(0))
    ELSE LET encoded_bytes == Utf8(ToStr(v))
         IN  Emit(write_int(w, PyInt(Len(encoded_bytes))), encoded_bytes)

\* one line of LayoutWriter.lines: the indent level it was written at and its text
AddLine(w, text) ==
    IF w.err # "none" THEN w
    ELSE [w EXCEPT !.lines = Append(@, [indent |-> w.indent_level, text |-> text])]

log(w, type_name, field_name, value) ==
    LET r == Repr(value)
        value_str == IF Len(r) > ReprLimit
                     THEN SubSeq(r, 1, ReprLimit) \o << ".", ".", "." >> ELSE r
    IN  AddLine(w, << "[" >> \o type_name \o << "]", " " >> \o field_name
                      \o << " ", "=", " " >> \o value_str)

enter_scope(w, scope_name) ==
    LET w1 == AddLine(w, scope_name \o << " ", "{" >>)
    IN  IF w1.err # "none" THEN w1 ELSE [w1 EXCEPT !.indent_level = @ + 1]

\* the scope is closed without stepping the indent back
exit_scope_keep_indent(w) ==
    IF w.err # "none" THEN w
    ELSE AddLine(w, << "}" >>)

exit_scope(w) ==
    IF w.err # "none" THEN w
    ELSE AddLine([w EXCEPT !.indent_level = @ - 1], << "}" >>)

(***************************************************************************)
(* json.loads for arrays, strings without escapes, integers, the literals  *)
(* and the empty object; other JSON text is outside the modelled inputs.   *)
(* A result is [ok, v, next]: the value and the index after it.            *)
(***************************************************************************)
RECURSIVE SkipWs(_, _)
SkipWs(s, i) == IF i <= Len(s) /\ IsSpace(s[i]) THEN SkipWs(s, i + 1) ELSE i

RECURSIVE FindChar(_, _, _)
\* the first index >= i of s that holds c, or 0
FindChar(s, c, i) ==
    IF i > Len(s) THEN 0 ELSE IF s[i] = c THEN i ELSE FindChar(s, c, i + 1)

RECURSIVE DigitRun(_, _)
\* the index after the digits that start at i
DigitRun(s, i) == IF i <= Len(s) /\ IsDigit(s[i]) THEN DigitRun(s, i + 1) ELSE i

JsonFail == [ok |-> FALSE, v |-> None, next |-> 0]

JsonNumber(s, j) ==
    LET d == IF s[j] = "-" THEN j + 1 ELSE j
        e == IF d <= Len(s) /\ s[d] = "0" THEN d + 1 ELSE DigitRun(s, d)
    IN  IF e = d THEN JsonFail
        ELSE [ok |-> TRUE, v |-> PyInt(ParseInt(SubSeq(s, j, e - 1)).n), next |-> e]

JsonLiteral(s, j) ==
    LET rest == SubSeq(s, j, Len(s))
    IN  IF StartsWith(rest, << "t", "r", "u", "e" >>)
        THEN [ok |-> TRUE, v |-> PyBool(TRUE), next |-> j + 4]
        ELSE IF StartsWith(rest, << "f", "a", "l", "s", "e" >>)
        THEN [ok |-> TRUE, v |-> PyBool(FALSE), next |-> j + 5]
        ELSE IF StartsWith(rest, << "n", "u", "l", "l" >>)
        THEN [ok |-> TRUE, v |-> None, next |-> j + 4]
        ELSE JsonFail

RECURSIVE JsonValue(_, _)
RECURSIVE JsonElements(_, _, _)
JsonValue(s, i) ==
    LET j == SkipWs(s, i)
    IN  IF j > Len(s) THEN JsonFail
        ELSE IF s[j] = "[" THEN
            LET k == SkipWs(s, j + 1)
            IN  IF k <= Len(s) /\ s[k] = "]"
                THEN [ok |-> TRUE, v |-> PyList(<< >>), next |-> k + 1]
                ELSE JsonElements(s, k, << >>)
        ELSE IF s[j] = "{" THEN
            LET k == SkipWs(s, j + 1)
            IN  IF k <= Len(s) /\ s[k] = "}"
                THEN [ok |-> TRUE, v |-> PyDict, next |-> k + 1] ELSE JsonFail
        ELSE IF s[j] = "\"" THEN
            LET q == FindChar(s, "\"", j + 1)
            IN  IF q = 0 \/ FindChar(SubSeq(s, j + 1, q - 1), "U+005C", 1) # 0 THEN JsonFail
                ELSE [ok |-> TRUE, v |-> PyStr(SubSeq(s, j + 1, q - 1)), next |-> q + 1]
        ELSE IF s[j] = "-" \/ IsDigit(s[j]) THEN JsonNumber(s, j)
        ELSE JsonLiteral(s, j)
JsonElements(s, i, acc) ==
    LET r == JsonValue(s, i)
        k == SkipWs(s, r.next)
    IN  IF ~r.ok \/ k > Len(s) THEN JsonFail
        ELSE IF s[k] = "," THEN JsonElements(s, k + 1, Append(acc, r.v))
        ELSE IF s[k] = "]" THEN [ok |-> TRUE, v |-> PyList(Append(acc, r.v)), next |-> k + 1]
        ELSE JsonFail

\* json.loads(s): [ok |-> FALSE] is json.JSONDecodeError
JsonLoads(s) ==
    LET r == JsonValue(s, 1)
    IN  IF r.ok /\ SkipWs(s, r.next) > Len(s) THEN [ok |-> TRUE, v |-> r.v]
        ELSE [ok |-> FALSE, v |-> None]

(***************************************************************************)
(* The type grammar.  A type string is text; a type-syntax cell that is    *)
(* not text is outside the modelled inputs.                                *)
(***************************************************************************)
CollectionKinds == << << "l", "i", "s", "t" >>, << "s", "e", "t" >>, << "a", "r", "r", "a", "y" >> >>

\* TYPE_STRING_REGEX ^(list|set|array)\((.*)\)$ : the kinds whose prefix matches
MatchingKinds(t) ==
    { k \in 1..Len(CollectionKinds) :
        StartsWith(t, CollectionKinds[k] \o << "(" >>) /\ EndsWith(t, << ")" >>)
        /\ Len(t) >= Len(CollectionKinds[k]) + 2 }

\* (collection_type, inner_type_str); collection_type << >> stands for None
parse_type_string(type_str) ==
    LET t == Strip(type_str)
        m == MatchingKinds(t)
    IN  IF m # {}
        THEN LET k == CollectionKinds[CHOOSE x \in m : TRUE]
             IN  [collection_type |-> k, inner |-> SubSeq(t, Len(k) + 2, Len(t) - 1)]
        ELSE [collection_type |-> << >>, inner |-> type_str]

\* a suffix that is no JSON is taken for no suffix at all
parse_unified_syntax_lenient(type_syntax_str) ==
    LET t == Strip(type_syntax_str)
        b == FindChar(t, "[", 1)
    IN  IF b # 0 /\ EndsWith(t, << "]" >>) /\ JsonLoads(SubSeq(t, b, Len(t))).ok
        THEN [type_str |-> Strip(SubSeq(t, 1, b - 1)), none |-> FALSE,
              delimiters |-> IF IsList(JsonLoads(SubSeq(t, b, Len(t))).v)
                             THEN JsonLoads(SubSeq(t, b, Len(t))).v.items ELSE << >>,
              err |-> "none", text |-> SubSeq(t, b, Len(t))]
        ELSE [type_str |-> IF b # 0 /\ EndsWith(t, << "]" >>) THEN Strip(SubSeq(t, 1, b - 1)) ELSE t,
              none |-> TRUE, delimiters |-> << >>, err |-> "none", text |-> << >>]

\* UNIFIED_TYPE_SYNTAX_REGEX ^(.*?)(\[.*\])?$ : the lazy first group ends before the
\* first "[" when the text ends with "]"; delimiters << >> with none = TRUE is None
parse_unified_syntax(type_syntax_str) ==
    LET t == Strip(type_syntax_str)
        b == FindChar(t, "[", 1)
    IN  IF b # 0 /\ EndsWith(t, << "]" >>)
        THEN LET delimiters_str == SubSeq(t, b, Len(t))
                 j == JsonLoads(delimiters_str)
             IN  IF j.ok
                 THEN [type_str |-> Strip(SubSeq(t, 1, b - 1)), none |-> FALSE,
                       delimiters |-> IF IsList(j.v) THEN j.v.items ELSE << >>,
                       err |-> "none", text |-> delimiters_str]
                 ELSE [type_str |-> Strip(SubSeq(t, 1, b - 1)), none |-> TRUE,
                       delimiters |-> << >>, err |-> "ValueError", text |-> delimiters_str]
        ELSE [type_str |-> t, none |-> TRUE, delimiters |-> << >>, err |-> "none",
              text |-> << >>]

(***************************************************************************)
(* The data normalizer.                                                    *)
(***************************************************************************)
RECURSIVE FindSub(_, _, _)
\* the first index >= i where d occurs in s, or 0
FindSub(s, d, i) ==
    IF i + Len(d) - 1 > Len(s) THEN 0
    ELSE IF SubSeq(s, i, i + Len(d) - 1) = d THEN i ELSE FindSub(s, d, i + 1)

RECURSIVE Split(_, _)
\* s.split(d) for a non-empty d
Split(s, d) ==
    LET j == FindSub(s, d, 1)
    IN  IF j = 0 THEN << s >>
        ELSE << SubSeq(s, 1, j - 1) >> \o Split(SubSeq(s, j + Len(d), Len(s)), d)

PyRaise(e) == [t |-> "raise", e |-> e]

\* a list built by a comprehension: an exception in one item ends it
ListOrRaise(items) ==
    IF \E i \in 1..Len(items) : items[i].t = "raise"
    THEN items[CHOOSE i \in 1..Len(items) :
                 items[i].t = "raise" /\ \A k \in 1..(i - 1) : items[k].t # "raise"]
    ELSE PyList(items)

\* one deque shared by the siblings: what the first sibling pops, the others miss
fork_delimiters_shared(rest, i) == IF i = 1 THEN rest ELSE << >>

\* delimiters.copy(): the queue handed to sibling i after the pop
fork_delimiters(rest, i) == rest

RECURSIVE normalize_data(_, _)
normalize_data(raw_value, delimiters) ==
    IF delimiters = << >> THEN raw_value
    ELSE LET delimiter == Head(delimiters)
             rest == Tail(delimiters)
         IN  IF IsList(raw_value)
             THEN ListOrRaise([i \in 1..Len(raw_value.items) |->
                      normalize_data(raw_value.items[i], fork_delimiters(rest, i))])
             ELSE IF IsStr(raw_value)
             THEN IF ~IsStr(delimiter) THEN PyRaise("TypeError")
                  ELSE IF delimiter.s = << >> THEN PyRaise("ValueError")
                  ELSE LET parts == Split(raw_value.s, delimiter.s)
                       IN  ListOrRaise([i \in 1..Len(parts) |->
                               normalize_data(PyStr(parts[i]), fork_delimiters(rest, i))])
             ELSE raw_value

(***************************************************************************)
(* The type registry.  _loaded_types maps a name to its definition,        *)
(* [TargetTypeAsEnum, EnumMembers, FieldSequence]; a key the JSON leaves   *)
(* out is FALSE or empty.  EnumMembers is a sequence of <<name, ordinal>>, *)
(* FieldSequence a sequence of [Field, Type].                              *)
(***************************************************************************)
StrString == << "s", "t", "r", "i", "n", "g" >>
StrInt == << "i", "n", "t" >>
StrLong == << "l", "o", "n", "g" >>
StrBool == << "b", "o", "o", "l" >>
StrFloat == << "f", "l", "o", "a", "t" >>

Primitives == { StrInt, StrLong, StrString, StrBool, StrFloat }

EnumDef(members) ==
    [TargetTypeAsEnum |-> TRUE, EnumMembers |-> members, FieldSequence |-> << >>]

StructDef(fields) ==
    [TargetTypeAsEnum |-> FALSE, EnumMembers |-> << >>, FieldSequence |-> fields]

\* TypeSystem.get_type: [ok |-> FALSE] is the ValueError of an unknown name
get_type(types, name) ==
    IF name \in DOMAIN types THEN [ok |-> TRUE, def |-> types[name]]
    ELSE IF parse_type_string(name).collection_type # << >> \/ name \in Primitives
    THEN [ok |-> TRUE, def |-> StructDef(<< >>)]
    ELSE [ok |-> FALSE, def |-> StructDef(<< >>)]

\* TypeSystem.get_default_schema: << >> stands for None
get_default_schema(schemas, type_expr) ==
    IF type_expr \in DOMAIN schemas THEN schemas[type_expr] ELSE << >>

(***************************************************************************)
(* The recursive encoder.                                                  *)
(***************************************************************************)
\* a "set" that drops the parts it has already seen
collection_items_dedup(data, collection_type) ==
    IF ~IsList(data) THEN << >>
    ELSE IF collection_type # << "s", "e", "t" >> THEN data.items
    ELSE LET first == { i \in 1..Len(data.items) :
                          \A k \in 1..(i - 1) : data.items[k] # data.items[i] }
             RECURSIVE Keep(_)
             Keep(i) == IF i > Len(data.items) THEN << >>
                        ELSE IF i \in first THEN << data.items[i] >> \o Keep(i + 1)
                        ELSE Keep(i + 1)
         IN  Keep(1)

\* items = data if isinstance(data, list) else []
collection_items(data, collection_type) == IF IsList(data) THEN data.items ELSE << >>

\* dict.get(key, 0) on EnumMembers
MemberOrdinal(members, key) ==
    IF \E i \in 1..Len(members) : members[i][1] = key
    THEN members[CHOOSE i \in 1..Len(members) : members[i][1] = key][2]
    ELSE 0

\* EnumMembers[data]: a name that is no member raises KeyError
enum_value_strict(type_def, data) ==
    IF IsNone(data) THEN [e |-> "none", n |-> 0]
    ELSE IF IsInt(data) THEN [e |-> "none", n |-> IntOf(data)]
    ELSE IF IsStr(data) /\ \E i \in 1..Len(type_def.EnumMembers) :
                               type_def.EnumMembers[i][1] = data.s
    THEN [e |-> "none", n |-> MemberOrdinal(type_def.EnumMembers, data.s)]
    ELSE [e |-> "KeyError", n |-> 0]

\* enum_val of the enum branch
enum_value(type_def, data) ==
    IF IsNone(data) THEN [e |-> "none", n |-> 0]
    ELSE IF IsInt(data) THEN [e |-> "none", n |-> IntOf(data)]
    ELSE IF IsStr(data) THEN [e |-> "none", n |-> MemberOrdinal(type_def.EnumMembers, data.s)]
    ELSE [e |-> "none", n |-> 0]

\* str(data).lower() in ['true', '1', 'yes'] if isinstance(data, str) else bool(data)
Lower(c) ==
    IF \E i \in 34..59 : Ascii[i] = c
    THEN Ascii[(CHOOSE i \in 34..59 : Ascii[i] = c) + 32] ELSE c

bool_val(data) ==
    IF IsStr(data)
    THEN [i \in 1..Len(data.s) |-> Lower(data.s[i])]
             \in { << "t", "r", "u", "e" >>, << "1" >>, << "y", "e", "s" >> }
    ELSE Truthy(data)

\* f"[{i}]"
IndexName(i) == << "[" >> \o IntToStr(i) \o << "]" >>

RECURSIVE write_recursive(_, _, _, _, _, _)
RECURSIVE write_items(_, _, _, _, _, _)
RECURSIVE write_fields(_, _, _, _, _, _)

\* _write_recursive; depth counts the frames left before RecursionError
write_recursive(w, types, data, type_str, field_name, depth) ==
    IF w.err # "none" THEN w
    ELSE IF depth = 0 THEN Raise(w, "RecursionError")
    ELSE
    LET pt == parse_type_string(type_str)
        name == pt.inner
    IN  IF pt.collection_type # << >> THEN
            LET items == collection_items(data, pt.collection_type)
                w1 == write_int(w, PyInt(Len(items)))
                w2 == log(w1, StrInt, field_name \o << "_", "c", "o", "u", "n", "t" >>,
                          PyInt(Len(items)))
                w3 == enter_scope(w2, field_name \o << ":", " " >> \o type_str)
            IN  exit_scope(write_items(w3, types, items, pt.inner, 1, depth - 1))
        ELSE IF name = StrString THEN log(write_string(w, data), StrString, field_name, data)
        ELSE IF name = StrInt THEN log(write_int(w, data), StrInt, field_name, data)
        ELSE IF name = StrLong THEN log(write_long(w, data), StrLong, field_name, data)
        ELSE IF name = StrBool THEN
            log(write_bool(w, PyBool(bool_val(data))), StrBool, field_name,
                PyBool(bool_val(data)))
        ELSE IF name = StrFloat THEN log(write_float(w, data), StrFloat, field_name, data)
        ELSE
            LET g == get_type(types, name)
                type_def == g.def
            IN  IF ~g.ok THEN Raise(w, "ValueError")
                ELSE IF type_def.TargetTypeAsEnum THEN
                    LET ev == enum_value(type_def, data)
                    IN  IF ev.e # "none" THEN Raise(w, ev.e)
                        ELSE log(write_int(w, PyInt(ev.n)),
                                 << "e", "n", "u", "m", "(" >> \o name \o << ")" >>,
                                 field_name, PyInt(ev.n))
                ELSE
                    LET w1 == enter_scope(w, field_name \o << ":", " " >> \o name)
                        field_values == IF IsList(data) THEN data.items ELSE << >>
                    IN  exit_scope(write_fields(w1, types, type_def.FieldSequence,
                                                field_values, 1, depth - 1))

\* for i, item in enumerate(items): self._write_recursive(item, inner_type_str, f"[{i}]")
write_items(w, types, items, inner_type_str, i, depth) ==
    IF i > Len(items) \/ w.err # "none" THEN w
    ELSE write_items(write_recursive(w, types, items[i], inner_type_str,
                                     IndexName(i - 1), depth),
                     types, items, inner_type_str, i + 1, depth)

RECURSIVE write_fields_no_default(_, _, _, _, _, _)
\* a field without a positional part is left out
write_fields_no_default(w, types, fields, field_values, i, depth) ==
    IF i > Len(fields) \/ i > Len(field_values) \/ w.err # "none" THEN w
    ELSE write_fields_no_default(write_recursive(w, types, field_values[i], fields[i].Type,
                                                 fields[i].Field, depth),
                                 types, fields, field_values, i + 1, depth)

\* for i, field_def in enumerate(type_def.get("FieldSequence", [])): ...
write_fields(w, types, fields, field_values, i, depth) ==
    IF i > Len(fields) \/ w.err # "none" THEN w
    ELSE LET f_value == IF i <= Len(field_values) THEN field_values[i] ELSE None
         IN  write_fields(write_recursive(w, types, f_value, fields[i].Type,
                                          fields[i].Field, depth),
                          types, fields, field_values, i + 1, depth)

\* lines 131-136 of write_value: the value handed to _write_recursive
normalized_value(raw_value, delimiters) ==
    IF delimiters # << >> /\ IsStr(raw_value)
    THEN normalize_data(raw_value, delimiters)
    ELSE IF IsStr(raw_value) /\ Strip(raw_value.s) # << >>
            /\ Head(Strip(raw_value.s)) \in { "{", "[" }
    THEN LET j == JsonLoads(raw_value.s) IN IF j.ok THEN j.v ELSE raw_value
    ELSE raw_value

\* lines 131-138 of write_value: normalize with the delimiters, then encode
encode_with(w, types, raw, type_str, delimiters, col) ==
    LET nv == normalized_value(raw, delimiters)
    IN  IF nv.t = "raise" THEN Raise(w, nv.e)
        ELSE write_recursive(w, types, nv, type_str, col, MaxDepth)

\* CustomBinaryDataHandler.write_value(raw_value, type_syntax_str, {'col': col})
write_value(w, types, raw_value, type_syntax_str, col) ==
    IF w.err # "none" THEN w
    ELSE
    LET raw == IF IsNone(raw_value) \/ (IsStr(raw_value) /\ raw_value.s = << >>)
               THEN None ELSE raw_value
        p == parse_unified_syntax(type_syntax_str)
    IN  IF p.err # "none" THEN Raise(w, p.err)
        ELSE encode_with(w, types, raw, p.type_str, p.delimiters, col)

(***************************************************************************)
(* BinaryDataWriter.write.  A ConfigTable is [excel_file_name, base_name,  *)
(* is_flat_table, target_type_name, rows, data_rows], a ConfigRow          *)
(* [key, type_syntax, value].                                              *)
(***************************************************************************)
RECURSIVE write_flat_rows(_, _, _, _)
\* for row in table.rows: handler.write_value(row.value, row.type_syntax, {'col': row.key})
write_flat_rows(w, types, rows, i) ==
    IF i > Len(rows) \/ w.err # "none" THEN w
    ELSE write_flat_rows(write_value(w, types, rows[i].value, rows[i].type_syntax, rows[i].key),
                         types, rows, i + 1)

RECURSIVE write_row_fields(_, _, _, _, _)
\* for j, field_def in enumerate(table.rows): handler.write_value(data_row[j], ...)
write_row_fields(w, types, rows, data_row, j) ==
    IF j > Len(rows) \/ w.err # "none" THEN w
    ELSE IF j > Len(data_row) THEN Raise(w, "IndexError")
    ELSE write_row_fields(write_value(w, types, data_row[j], rows[j].type_syntax, rows[j].key),
                          types, rows, data_row, j + 1)

RECURSIVE write_data_rows(_, _, _, _, _)
\* for i, data_row in enumerate(table.data_rows): ...
write_data_rows(w, types, rows, data_rows, i) ==
    IF i > Len(data_rows) \/ w.err # "none" THEN w
    ELSE write_data_rows(
             exit_scope(write_row_fields(
                 enter_scope(w, << "R", "o", "w", " ", "[" >> \o IntToStr(i - 1) \o << "]" >>),
                 types, rows, data_rows[i], 1)),
             types, rows, data_rows, i + 1)

\* write on the writer of the call before: the buffer goes on from where the
\* last table left it
write_shared_writer(types, table) ==
    IF table.is_flat_table
    THEN LET w1 == log([NewHandler EXCEPT !.buffer = h.buffer],
                       << "F", "l", "a", "t", " ", "T", "a", "b", "l", "e" >>, table.target_type_name,
                       PyStr(<< "f", "r", "o", "m", " " >> \o table.excel_file_name))
             w2 == enter_scope(w1, << "P", "r", "o", "p", "e", "r", "t", "i", "e", "s", " ", "o", "f", " " >> \o table.target_type_name)
         IN  exit_scope(write_flat_rows(w2, types, table.rows, 1))
    ELSE LET w1 == log([NewHandler EXCEPT !.buffer = h.buffer],
                       << "S", "t", "a", "n", "d", "a", "r", "d", " ", "T", "a", "b", "l", "e" >>, table.target_type_name,
                       PyStr(IntToStr(Len(table.data_rows)) \o << " ", "r", "o", "w", "s", " ", "f", "r", "o", "m", " " >>
                             \o table.excel_file_name))
             w2 == write_int(w1, PyInt(Len(table.data_rows)))
             w3 == enter_scope(w2, << "D", "a", "t", "a", " ", "R", "o", "w", "s" >>)
         IN  exit_scope(write_data_rows(w3, types, table.rows, table.data_rows, 1))

\* a standard table written without its leading row count
write_no_count(types, table) ==
    IF table.is_flat_table
    THEN LET w1 == log(NewHandler, << "F", "l", "a", "t", " ", "T", "a", "b", "l", "e" >>, table.target_type_name,
                       PyStr(<< "f", "r", "o", "m", " " >> \o table.excel_file_name))
             w2 == enter_scope(w1, << "P", "r", "o", "p", "e", "r", "t", "i", "e", "s", " ", "o", "f", " " >> \o table.target_type_name)
         IN  exit_scope(write_flat_rows(w2, types, table.rows, 1))
    ELSE LET w1 == log(NewHandler, << "S", "t", "a", "n", "d", "a", "r", "d", " ", "T", "a", "b", "l", "e" >>, table.target_type_name,
                       PyStr(IntToStr(Len(table.data_rows)) \o << " ", "r", "o", "w", "s", " ", "f", "r", "o", "m", " " >>
                             \o table.excel_file_name))
             w3 == enter_scope(w1, << "D", "a", "t", "a", " ", "R", "o", "w", "s" >>)
         IN  exit_scope(write_data_rows(w3, types, table.rows, table.data_rows, 1))

\* BinaryDataWriter.write(table): the handler when it returns or raises;
\* the result is (buffer, lines) when err = "none"
write(types, table) ==
    IF table.is_flat_table
    THEN LET w1 == log(NewHandler, << "F", "l", "a", "t", " ", "T", "a", "b", "l", "e" >>, table.target_type_name,
                       PyStr(<< "f", "r", "o", "m", " " >> \o table.excel_file_name))
             w2 == enter_scope(w1, << "P", "r", "o", "p", "e", "r", "t", "i", "e", "s", " ", "o", "f", " " >> \o table.target_type_name)
         IN  exit_scope(write_flat_rows(w2, types, table.rows, 1))
    ELSE LET w1 == log(NewHandler, << "S", "t", "a", "n", "d", "a", "r", "d", " ", "T", "a", "b", "l", "e" >>, table.target_type_name,
                       PyStr(IntToStr(Len(table.data_rows)) \o << " ", "r", "o", "w", "s", " ", "f", "r", "o", "m", " " >>
                             \o table.excel_file_name))
             w2 == write_int(w1, PyInt(Len(table.data_rows)))
             w3 == enter_scope(w2, << "D", "a", "t", "a", " ", "R", "o", "w", "s" >>)
         IN  exit_scope(write_data_rows(w3, types, table.rows, table.data_rows, 1))

(***************************************************************************)
(* The registry and the inputs the encoder is run on.                      *)
(***************************************************************************)
Field(name, type) == [Field |-> name, Type |-> type]

\* Bag is a struct as the wizard stores it: its field's Type carries the
\* delimiter suffix (wizard.py:108-111)
SampleTypes ==
    (<< "I", "t", "e", "m", "L", "i", "s", "t" >> :> StructDef(<< Field(<< "I", "t", "e", "m", "s" >>, << "l", "i", "s", "t", "(", "i", "n", "t", ")" >>) >>))
    @@ (<< "I", "t", "e", "m" >> :> StructDef(<< Field(<< "I", "d" >>, StrInt), Field(<< "C", "o", "u", "n", "t" >>, StrInt) >>))
    @@ (<< "Q", "u", "a", "l", "i", "t", "y" >> :> EnumDef(<< << << "C", "o", "m", "m", "o", "n" >>, 0 >>, << << "R", "a", "r", "e" >>, 1 >>, << << "E", "p", "i", "c" >>, 2 >> >>))
    @@ (<< "B", "a", "g" >> :> StructDef(<< Field(<< "I", "t", "e", "m", "s" >>, << "l", "i", "s", "t", "(", "i", "n", "t", ")", "[", "\"", "~", "\"", "]" >>) >>))
    @@ (<< "N", "o", "d", "e" >> :> StructDef(<< Field(<< "N", "e", "x", "t" >>, << "N", "o", "d", "e" >>) >>))
    @@ (<< "C", "h", "a", "i", "n" >> :> StructDef(<< Field(<< "I", "d" >>, StrInt), Field(<< "N", "e", "x", "t" >>, << "C", "h", "a", "i", "n" >>) >>))
    @@ (<< "T", "r", "e", "e" >> :> StructDef(<< Field(<< "K", "i", "d", "s" >>, << "l", "i", "s", "t", "(", "T", "r", "e", "e", ")" >>) >>))
    @@ (<< "P", "a", "i", "r" >> :> StructDef(<< Field(<< "I", "d" >>, StrInt), Field(<< "T", "a", "g", "s" >>, << "l", "i", "s", "t", "(", "i", "n", "t", ")" >>) >>))
    @@ (<< "H", "e", "r", "o" >> :> StructDef(<< Field(<< "N", "a", "m", "e" >>, StrString), Field(<< "Q" >>, << "Q", "u", "a", "l", "i", "t", "y" >>),
                                Field(<< "M", "a", "i", "n" >>, << "I", "t", "e", "m" >>), Field(<< "A", "l", "i", "v", "e" >>, StrBool),
                                Field(<< "S", "p", "e", "e", "d" >>, StrFloat), Field(<< "E", "x", "p" >>, StrLong),
                                Field(<< "L", "o", "o", "t" >>, << "l", "i", "s", "t", "(", "I", "t", "e", "m", ")" >>) >>))

\* SourceSchemas of the loaded sources: literal type syntax -> delimiters
SampleSchemas ==
    (<< "l", "i", "s", "t", "(", "i", "n", "t", ")" >> :> << PyStr(<< "~" >>) >>)
    @@ (<< "l", "i", "s", "t", "(", "l", "i", "s", "t", "(", "i", "n", "t", ")", ")" >> :> << PyStr(<< "~" >>), PyStr(<< "#" >>) >>)

CollectionOf(kind, inner) == kind \o << "(" >> \o inner \o << ")" >>

KindSet == { CollectionKinds[k] : k \in 1..Len(CollectionKinds) }

SuffixTilde == << "[", "\"", "~", "\"", "]" >>
SuffixTildeHash == << "[", "\"", "~", "\"", ",", "\"", "#", "\"", "]" >>

TypeSyntaxes ==
    { CollectionOf(k, p) \o SuffixTilde : k \in KindSet, p \in Primitives }
    \cup { CollectionOf(k, CollectionOf(k2, StrInt)) \o SuffixTildeHash :
             k \in KindSet, k2 \in { << "l", "i", "s", "t" >> } }
    \cup Primitives
    \cup { << "Q", "u", "a", "l", "i", "t", "y" >>, << "I", "t", "e", "m" >>, << "I", "t", "e", "m", "[", "\"", "#", "\"", "]" >>, << "I", "t", "e", "m", "L", "i", "s", "t" >>, << "I", "t", "e", "m", "L", "i", "s", "t", "[", "\"", "~", "\"", "]" >>,
           << "B", "a", "g" >>, << "H", "e", "r", "o" >>, << "P", "a", "i", "r" >>, << "P", "a", "i", "r", "[", "\"", "#", "\"", ",", "\"", "|", "\"", "]" >>,
           << "l", "i", "s", "t", "(", "i", "n", "t", ")" >>, << "l", "i", "s", "t", "(", "l", "i", "s", "t", "(", "i", "n", "t", ")", ")" >>, << "l", "i", "s", "t", "(", "I", "t", "e", "m", ")" >>, << "l", "i", "s", "t", "(", "I", "t", "e", "m", ")", "[", "\"", "~", "\"", ",", " ", "\"", "#", "\"", "]" >>,
           << "l", "i", "s", "t", "(", "s", "t", "r", "i", "n", "g", ")", "[", "\"", "~", "\"", ",", "\"", "#", "\"", "]" >>, << "l", "i", "s", "t", "(", "Q", "u", "a", "l", "i", "t", "y", ")", "[", "\"", "~", "\"", "]" >>,
           << "N", "o", "d", "e" >>, << "C", "h", "a", "i", "n" >>, << "T", "r", "e", "e" >>,
           << "U", "n", "k", "n", "o", "w", "n" >>, << "l", "i", "s", "t", "(", "U", "n", "k", "n", "o", "w", "n", ")" >>, << "l", "i", "s", "t", "(", "i", "n", "t", ")", "[", "~", "]" >>, << "l", "i", "s", "t", "(", "i", "n", "t", ")", " ", "[", "\"", "~", "\"", "]" >>,
           << " ", "l", "i", "s", "t", "(", "i", "n", "t", ")" >>, << "l", "i", "s", "t", "(", " ", "i", "n", "t", ")", "[", "\"", "~", "\"", "]" >> }

DataAlphabet == { "1", "2", "~", "#" }

\* every text of 1..MaxStrLen characters of DataAlphabet
EnumeratedTexts == UNION { [1..n -> DataAlphabet] : n \in 1..MaxStrLen }

ExampleValues ==
    { None, PyStr(<< >>), PyStr(<< "1", "~", "2", "~", "3" >>), PyStr(<< "1", "#", "2", "~", "3", "#", "4" >>), PyStr(<< "1", "#", "2", "~", "3" >>),
      PyStr(<< "R", "a", "r", "e" >>), PyStr(<< "C", "o", "m", "m", "o", "n" >>), PyStr(<< "E", "p", "i", "c" >>), PyStr(<< "U", "n", "k", "n", "o", "w", "n" >>),
      PyStr(<< "r", "a", "r", "e" >>), PyStr(<< "1", "#", "2", "|", "3" >>), PyStr(<< "a", "#", "b", "~", "c" >>), PyStr(<< "1", "2", "~", "1", "~", "1", "2" >>),
      PyStr(<< "[", "5", ",", " ", "1", "0", "]" >>), PyStr(<< "[", "1", "," >>), PyStr(<< " ", "1", " " >>), PyStr(<< "t", "r", "u", "e" >>),
      PyStr(<< "-", "3", "~", "2" >>), PyStr(<< "U+00E9", "U+4E2D" >>),
      PyInt(0), PyInt(5), PyInt(-2), PyBool(TRUE), PyFloat(2),
      PyList(<< PyInt(5), PyInt(10) >>), PyList(<< >>), PyList(<< PyInt(5) >>),
      PyList(<< PyInt(5), PyInt(10), PyInt(15) >>), PyStr(<< "5", "#", "6", "#", "7" >>),
      PyStr(<< "1", "#", "2", "~" >>), PyStr(<< "[", "1", ",", "2", "]" >>), PyStr(<< "Y", "E", "S" >>),
      PyList(<< PyList(<< PyInt(1) >>), PyList(<< >>) >>) }

RawValues == { PyStr(s) : s \in EnumeratedTexts } \cup ExampleValues

ColX == << "X" >>

(***************************************************************************)
(* Specifications.  The variables of the generate command rest while a     *)
(* single operation of the encoder is run.                                 *)
(***************************************************************************)
NoFatal == [stage |-> "none", err |-> "none"]

GenerateIdle ==
    /\ pc = "idle"
    /\ opened = << >>
    /\ all_tables = << >>
    /\ table_idx = 0
    /\ temp_dir = [exists |-> FALSE, data |-> << >>, layout |-> << >>, code |-> {}]
    /\ output_dir = [data |-> << >>, layout |-> << >>, code |-> {}]
    /\ copy_dest = [enabled |-> FALSE, data |-> << >>]
    /\ targets = << >>
    /\ fatal = NoFatal

generate_vars == << opened, pc, all_tables, table_idx, temp_dir, output_dir, copy_dest, targets, fatal >>

(***************************************************************************)
(* SpecValue: one call of CustomBinaryDataHandler.write_value on a fresh   *)
(* handler, for every raw value and type syntax of the bounded inputs.     *)
(***************************************************************************)
ValueInit ==
    /\ op = "input"
    /\ arg_value \in RawValues
    /\ arg_type \in TypeSyntaxes
    /\ h = NewHandler
    /\ loaded_types = SampleTypes
    /\ default_schemas \in { SampleSchemas, << >> }
    /\ GenerateIdle

WriteValue ==
    /\ op = "input"
    /\ op' = "write_value"
    /\ h' = write_value(NewHandler, loaded_types, arg_value, arg_type, ColX)
    /\ UNCHANGED << arg_value, arg_type, loaded_types, default_schemas, generate_vars >>

ValueNext == WriteValue

SpecValue == ValueInit /\ [][ValueNext]_vars

(***************************************************************************)
(* SpecWriter: primitive writes in a row on one BinaryWriter.  h.err is    *)
(* the exception of the last call; the writer stays usable after it.       *)
(***************************************************************************)
PrimValues ==
    { None, PyStr(<< >>), PyStr(<< "1" >>), PyStr(<< "-", "7" >>), PyStr(<< "a" >>), PyStr(<< "y", "e", "s" >>),
      PyStr(<< "U+00E9", "U+4E2D" >>), PyInt(0), PyInt(1), PyInt(-2), PyInt(70000),
      PyBool(TRUE), PyFloat(3), PyList(<< >>) }

WriterInit ==
    /\ op = "new"
    /\ arg_value = None
    /\ arg_type = << >>
    /\ h = NewHandler
    /\ loaded_types = << >>
    /\ default_schemas = << >>
    /\ GenerateIdle

Ready == [h EXCEPT !.err = "none"]

CallWriter(name, v, after) ==
    /\ Len(h.buffer) < MaxBuffer
    /\ op' = name
    /\ arg_value' = v
    /\ h' = after
    /\ UNCHANGED << arg_type, loaded_types, default_schemas, generate_vars >>

WriteBool == \E v \in PrimValues : CallWriter("write_bool", v, write_bool(Ready, v))
WriteInt == \E v \in PrimValues : CallWriter("write_int", v, write_int(Ready, v))
WriteLong == \E v \in PrimValues : CallWriter("write_long", v, write_long(Ready, v))
WriteFloat == \E v \in PrimValues : CallWriter("write_float", v, write_float(Ready, v))
WriteString == \E v \in PrimValues : CallWriter("write_string", v, write_string(Ready, v))

WriterNext == WriteBool \/ WriteInt \/ WriteLong \/ WriteFloat \/ WriteString

SpecWriter == WriterInit /\ [][WriterNext]_vars

(***************************************************************************)
(* Claims about write_value (SpecValue) and the BinaryWriter (SpecWriter). *)
(***************************************************************************)
Called == op = "write_value"

NonEmptyText(v) == IsStr(v) /\ v.s # << >>

\* one part written by the primitive writer of the element type
WritePart(w, p, part) ==
    CASE p = StrInt -> write_int(w, PyStr(part))
      [] p = StrLong -> write_long(w, PyStr(part))
      [] p = StrFloat -> write_float(w, PyStr(part))
      [] p = StrBool -> write_bool(w, PyBool(bool_val(PyStr(part))))
      [] p = StrString -> write_string(w, PyStr(part))

RECURSIVE WriteParts(_, _, _, _)
\* a 4-byte count, then the parts in order, up to the first that raises
WriteParts(w, p, parts, i) ==
    IF i = 0 THEN WriteParts(Emit(w, LEBytes(Len(parts), 4)), p, parts, 1)
    ELSE IF i > Len(parts) \/ w.err # "none" THEN w
    ELSE WriteParts(WritePart(w, p, parts[i]), p, parts, i + 1)

\* C1: for list, array and set alike, a non-empty text encoded against
\* kind(primitive)["~"] is the 4-byte number n of its "~"-separated parts and
\* then each part written by the primitive's writer, in text order and
\* duplicates kept; a part the writer rejects raises after the parts before
\* it.  "1~2~3" as list(int)["~"] is int32(3), int32(1), int32(2), int32(3).
C1_CountThenParts ==
    /\ \A k \in KindSet, p \in Primitives :
        (Called /\ arg_type = CollectionOf(k, p) \o SuffixTilde /\ NonEmptyText(arg_value))
        => LET want == WriteParts(NewHandler, p, Split(arg_value.s, << "~" >>), 0)
           IN  h.buffer = want.buffer /\ h.err = want.err
    /\ (Called /\ arg_type = << "l", "i", "s", "t", "(", "i", "n", "t", ")", "[", "\"", "~", "\"", "]" >> /\ arg_value = PyStr(<< "1", "~", "2", "~", "3" >>))
        => h.err = "none"
           /\ h.buffer = << 3, 0, 0, 0, 1, 0, 0, 0, 2, 0, 0, 0, 3, 0, 0, 0 >>

\* a set whose text repeats a part: all three parts are written
C1_Witness ==
    /\ Called
    /\ arg_type = << "s", "e", "t", "(", "i", "n", "t", ")", "[", "\"", "~", "\"", "]" >>
    /\ arg_value = PyStr(<< "1", "2", "~", "1", "~", "1", "2" >>)
    /\ h.err = "none"
    /\ h.buffer = << 3, 0, 0, 0, 12, 0, 0, 0, 1, 0, 0, 0, 12, 0, 0, 0 >>

RECURSIVE WriteInnerLists(_, _, _)
\* each "~"-part on its own: its "#"-parts as a list of int
WriteInnerLists(w, outer, i) ==
    IF i > Len(outer) \/ w.err # "none" THEN w
    ELSE WriteInnerLists(WriteParts(w, StrInt, Split(outer[i], << "#" >>), 0), outer, i + 1)

\* C2: a non-empty text encoded against kind(list(int))["~","#"] is split on
\* "~", and every part, whatever its position, is split on "#": the outer
\* count, then for each part the count and the ints of that part alone.
\* "1#2~3#4" is count 2, (2: 1, 2), (2: 3, 4).
C2_OneDelimiterPerLevel ==
    /\ \A k \in KindSet :
        (Called /\ arg_type = CollectionOf(k, << "l", "i", "s", "t", "(", "i", "n", "t", ")" >>) \o SuffixTildeHash
                /\ NonEmptyText(arg_value))
        => LET outer == Split(arg_value.s, << "~" >>)
               want == WriteInnerLists(Emit(NewHandler, LEBytes(Len(outer), 4)), outer, 1)
           IN  h.buffer = want.buffer /\ h.err = want.err
    /\ (Called /\ arg_type = << "l", "i", "s", "t", "(", "l", "i", "s", "t", "(", "i", "n", "t", ")", ")", "[", "\"", "~", "\"", ",", "\"", "#", "\"", "]" >> /\ arg_value = PyStr(<< "1", "#", "2", "~", "3", "#", "4" >>))
        => h.err = "none"
           /\ h.buffer = << 2, 0, 0, 0, 2, 0, 0, 0, 1, 0, 0, 0, 2, 0, 0, 0,
                            2, 0, 0, 0, 3, 0, 0, 0, 4, 0, 0, 0 >>

\* the second sibling is split on "#" as the first is
C2_Witness ==
    /\ Called
    /\ arg_type = << "l", "i", "s", "t", "(", "l", "i", "s", "t", "(", "i", "n", "t", ")", ")", "[", "\"", "~", "\"", ",", "\"", "#", "\"", "]" >>
    /\ arg_value = PyStr(<< "1", "#", "2", "~", "3", "#", "4" >>)
    /\ Len(h.buffer) = 28
    /\ SubSeq(h.buffer, 17, 28) = << 2, 0, 0, 0, 3, 0, 0, 0, 4, 0, 0, 0 >>

ListIntTilde == << "l", "i", "s", "t", "(", "i", "n", "t", ")", "[", "\"", "~", "\"", "]" >>
ItemListTilde == << "I", "t", "e", "m", "L", "i", "s", "t", "[", "\"", "~", "\"", "]" >>

\* C3: a text that list(int)["~"] encodes, encoded against the wrapper struct
\* ItemList{Items: list(int)} with ["~"], gives the same bytes: the struct
\* level takes no delimiter.
C3_WrapperStructElision ==
    LET want == write_value(NewHandler, loaded_types, arg_value, ListIntTilde, ColX)
    IN  (Called /\ arg_type = ItemListTilde /\ NonEmptyText(arg_value) /\ want.err = "none")
        => h.buffer = want.buffer /\ h.err = "none"

\* C4: against the enum Quality a member name is written as its ordinal in 4
\* bytes; a text that is no member, None and "" are written as 0; none raises.
C4_EnumOrdinalOrZero ==
    (Called /\ arg_type = << "Q", "u", "a", "l", "i", "t", "y" >> /\ (IsNone(arg_value) \/ IsStr(arg_value)))
    => LET members == loaded_types[<< "Q", "u", "a", "l", "i", "t", "y" >>].EnumMembers
           hit == { i \in 1..Len(members) : IsStr(arg_value) /\ members[i][1] = arg_value.s }
       IN  /\ h.err = "none"
           /\ \A i \in hit : h.buffer = LEBytes(members[i][2], 4)
           /\ hit = {} => h.buffer = << 0, 0, 0, 0 >>

C4_Witness ==
    /\ Called
    /\ arg_type = << "Q", "u", "a", "l", "i", "t", "y" >>
    /\ arg_value = PyStr(<< "E", "p", "i", "c" >>)
    /\ h.err = "none"
    /\ h.buffer = << 2, 0, 0, 0 >>

RECURSIVE DefaultBytes(_, _, _)
\* the zero value of a type syntax: 0, 0.0, false, the empty text, count 0,
\* ordinal 0, and for a struct the defaults of its fields in declared order
DefaultBytes(types, type_syntax_str, depth) ==
    LET p == parse_unified_syntax(type_syntax_str)
        pt == parse_type_string(p.type_str)
        name == pt.inner
        RECURSIVE Fields(_, _)
        Fields(fields, i) ==
            IF i > Len(fields) THEN << >>
            ELSE DefaultBytes(types, fields[i].Type, depth - 1) \o Fields(fields, i + 1)
    IN  IF depth = 0 THEN << >>
        ELSE IF pt.collection_type # << >> THEN << 0, 0, 0, 0 >>
        ELSE IF name = StrLong THEN << 0, 0, 0, 0, 0, 0, 0, 0 >>
        ELSE IF name = StrBool THEN << 0 >>
        ELSE IF name \in Primitives THEN << 0, 0, 0, 0 >>
        ELSE IF name \notin DOMAIN types THEN << >>
        ELSE IF types[name].TargetTypeAsEnum THEN << 0, 0, 0, 0 >>
        ELSE Fields(types[name].FieldSequence, 1)

DefaultedTypes ==
    Primitives \cup { << "l", "i", "s", "t", "(", "i", "n", "t", ")" >>, << "l", "i", "s", "t", "(", "I", "t", "e", "m", ")" >>, << "I", "t", "e", "m" >>, << "I", "t", "e", "m", "L", "i", "s", "t" >>, << "P", "a", "i", "r" >>,
                      << "H", "e", "r", "o" >>, << "B", "a", "g" >> }

\* C5: None and "" are written as the zero value of the type: int, long 0,
\* float 0.0, bool false, string length 0 and no payload, a collection count 0,
\* a struct the defaults of its fields in declared order, recursively.
C5_AbsentValueDefaults ==
    (Called /\ arg_type \in DefaultedTypes
            /\ (IsNone(arg_value) \/ (IsStr(arg_value) /\ arg_value.s = << >>)))
    => h.err = "none" /\ h.buffer = DefaultBytes(loaded_types, arg_type, MaxDepth)

\* the value of 4 bytes, least significant first, for a count
LEValue(b) == b[1] + 256 * b[2] + 65536 * b[3] + 16777216 * b[4]

\* C6: a primitive write that returns appends to the buffer, and appends only:
\* bool one byte 0 or 1, int 4 bytes, long 8 bytes, float 4 bytes, string a
\* 4-byte length equal to the number of UTF-8 bytes of the text and then those
\* bytes; a write that raises appends nothing.
C6_PrimitiveWidths ==
    [][ LET n == Len(h.buffer)
            added == SubSeq(h'.buffer, n + 1, Len(h'.buffer))
        IN  /\ Len(h'.buffer) >= n
            /\ SubSeq(h'.buffer, 1, n) = h.buffer
            /\ h'.err # "none" => added = << >>
            /\ (h'.err = "none" /\ op' = "write_bool") => Len(added) = 1 /\ added[1] \in {0, 1}
            /\ (h'.err = "none" /\ op' = "write_int") => Len(added) = 4
            /\ (h'.err = "none" /\ op' = "write_long") => Len(added) = 8
            /\ (h'.err = "none" /\ op' = "write_float") => Len(added) = 4
            /\ (h'.err = "none" /\ op' = "write_string") =>
                  /\ Len(added) >= 4
                  /\ LEValue(SubSeq(added, 1, 4)) = Len(added) - 4
                  /\ SubSeq(added, 5, Len(added))
                       = IF IsNone(arg_value') THEN << >> ELSE Utf8(ToStr(arg_value'))
      ]_vars

\* two characters, five bytes of UTF-8
C6_Witness ==
    /\ op = "write_string"
    /\ arg_value = PyStr(<< "U+00E9", "U+4E2D" >>)
    /\ h.err = "none"
    /\ h.buffer = << 5, 0, 0, 0, 195, 169, 228, 184, 173 >>

\* C8: when the type syntax has no delimiter suffix and the registry holds a
\* default schema under that very syntax, a text is split by that schema.
C8_DefaultSchemaUsed ==
    LET p == parse_unified_syntax(arg_type)
        want == encode_with(NewHandler, loaded_types, arg_value, p.type_str,
                            get_default_schema(default_schemas, arg_type), ColX)
    IN  (Called /\ NonEmptyText(arg_value) /\ arg_type \in DOMAIN default_schemas
                /\ p.none /\ want.err = "none")
        => h.buffer = want.buffer /\ h.err = "none"


(***************************************************************************)
(* The generate command (run.py).  Directories are maps from a file's base *)
(* name to its content; the tables of a run are the workbooks found in the *)
(* input directory, named by their place in the listing.                   *)
(***************************************************************************)
ConfigRow(key, type_syntax, value) == [key |-> key, type_syntax |-> type_syntax, value |-> value]

\* the FieldSequence of the standard tables' typedef
MonsterFields ==
    << ConfigRow(<< "I", "d" >>, StrInt, None),
       ConfigRow(<< "T", "a", "g", "s" >>, << "l", "i", "s", "t", "(", "i", "n", "t", ")", "[", "\"", "~", "\"", "]" >>, None),
       ConfigRow(<< "Q" >>, << "Q", "u", "a", "l", "i", "t", "y" >>, None) >>

GoodRow1 == << PyInt(1), PyStr(<< "1", "~", "2" >>), PyStr(<< "R", "a", "r", "e" >>) >>

GoodRow2 == << PyInt(2), None, PyStr(<< "E", "p", "i", "c" >>) >>

\* a non-numeric text in the int column
BadRow == << PyStr(<< "x", "1" >>), PyStr(<< "1" >>), None >>

StandardTable(data_rows) ==
    [is_flat_table |-> FALSE, rows |-> MonsterFields, data_rows |-> data_rows]

FlatTable(rows) ==
    [is_flat_table |-> TRUE, rows |-> rows, data_rows |-> << >>]

FlatGood ==
    FlatTable(<< ConfigRow(<< "M", "a", "x", "H", "p" >>, StrInt, PyInt(12)),
                 ConfigRow(<< "N", "a", "m", "e" >>, StrString, PyStr(<< "U+00E9" >>)),
                 ConfigRow(<< "D", "r", "o", "p", "s" >>, << "l", "i", "s", "t", "(", "i", "n", "t", ")", "[", "\"", "~", "\"", "]" >>, PyStr(<< "1", "~", "2" >>)) >>)

\* a text that is no number in a float property, after an int property
FlatBad ==
    FlatTable(<< ConfigRow(<< "M", "a", "x", "H", "p" >>, StrInt, PyInt(12)),
                 ConfigRow(<< "S", "p", "e", "e", "d" >>, StrFloat, PyStr(<< "a" >>)) >>)

TablePool ==
    { StandardTable(<< >>), StandardTable(<< GoodRow1 >>), StandardTable(<< GoodRow1, GoodRow2 >>),
      StandardTable(<< GoodRow1, BadRow >>), FlatGood, FlatBad }

BaseName(i) == << "T" >> \o IntToStr(i)

\* the ConfigTable read_all builds for the i-th workbook of the listing
ConfigTable(content, i) ==
    [excel_file_name |-> BaseName(i) \o << ".", "x", "l", "s", "x" >>,
     base_name |-> BaseName(i),
     is_flat_table |-> content.is_flat_table,
     target_type_name |-> BaseName(i) \o << "R", "o", "w" >>,
     rows |-> content.rows,
     data_rows |-> content.data_rows]

Listings == UNION { [1..n -> TablePool] : n \in 0..MaxTables }

RECURSIVE register_main_types(_, _, _)
\* if main_type_name not in _loaded_types: _loaded_types[main_type_name] = typedef_data
register_main_types(types, tables, i) ==
    IF i > Len(tables) THEN types
    ELSE LET t == tables[i]
             fields == [k \in 1..Len(t.rows) |-> Field(t.rows[k].key, t.rows[k].type_syntax)]
             types1 == IF t.is_flat_table \/ t.target_type_name \in DOMAIN types
                       THEN types
                       ELSE types @@ (t.target_type_name :> StructDef(fields))
         IN  register_main_types(types1, tables, i + 1)

\* LayoutWriter.get_content: the lines joined, each with its indent and newline
RECURSIVE get_content(_, _)
get_content(lines, i) ==
    IF i > Len(lines) THEN << >>
    ELSE [k \in 1..(2 * lines[i].indent) |-> " "] \o lines[i].text \o << "U+000A" >>
         \o get_content(lines, i + 1)

\* the two files of a table written although its encoding raised
store_artifacts_partial(temp, table, w) ==
    [temp EXCEPT !.data = (table.base_name :> w.buffer) @@ @,
                 !.layout = (table.base_name :> get_content(w.lines, 1)) @@ @]

\* binary_data, layout_text = binary_writer.write(table); then the two files
\* are opened and written: nothing is opened when write raises
store_artifacts(temp, table, w) ==
    IF w.err # "none" THEN temp
    ELSE [temp EXCEPT !.data = (table.base_name :> w.buffer) @@ @,
                      !.layout = (table.base_name :> get_content(w.lines, 1)) @@ @]

SupportedLanguages == { << "c", "s", "h", "a", "r", "p" >>, << "j", "a", "v", "a", "s", "c", "r", "i", "p", "t" >> }

Target(language, enabled) == [language |-> language, enabled |-> enabled]

TargetChoices ==
    { << >>, << Target(<< "c", "s", "h", "a", "r", "p" >>, TRUE) >>,
      << Target(<< "j", "a", "v", "a", "s", "c", "r", "i", "p", "t" >>, TRUE), Target(<< "c", "s", "h", "a", "r", "p" >>, FALSE) >>,
      << Target(<< "c", "o", "b", "o", "l" >>, TRUE) >> }

RECURSIVE javascript_generate_all(_, _, _)
\* generate_standard_table assigns FieldTypes and FieldSequence of the
\* registry's definition of the table's main type
javascript_generate_all(types, tables, i) ==
    IF i > Len(tables) THEN types
    ELSE LET t == tables[i]
             keys == [k \in 1..Len(t.rows) |-> t.rows[k].key]
             field_types == [k \in 1..Len(t.rows) |-> << t.rows[k].key, t.rows[k].type_syntax >>]
             old == types[t.target_type_name]
             types1 == IF t.is_flat_table THEN types
                       ELSE [types EXCEPT ![t.target_type_name] =
                               [TargetTypeAsEnum |-> old.TargetTypeAsEnum, EnumMembers |-> old.EnumMembers,
                                FieldSequence |-> keys, FieldTypes |-> field_types]]
         IN  javascript_generate_all(types1, tables, i + 1)

\* shutil.copytree(src, dst, dirs_exist_ok=True): files of src replace those of dst
copytree(src, dst) == src @@ dst

StaleBytes == << 255 >>

StaleText == << "o", "l", "d" >>

AbsentTemp == [exists |-> FALSE, data |-> << >>, layout |-> << >>, code |-> {}]

EmptyTemp == [exists |-> TRUE, data |-> << >>, layout |-> << >>, code |-> {}]

\* what an interrupted earlier run left behind
StaleTemp == [exists |-> TRUE, data |-> (BaseName(1) :> StaleBytes), layout |-> << >>, code |-> {}]

EmptyOutput == [data |-> << >>, layout |-> << >>, code |-> {}]

\* the output of an earlier run
StaleOutput ==
    [data |-> (BaseName(1) :> StaleBytes) @@ (<< "O", "l", "d" >> :> StaleBytes),
     layout |-> (BaseName(1) :> StaleText), code |-> {}]

encoder_args == << op, arg_value, arg_type >>

Init ==
    /\ op = "generate"
    /\ arg_value = None
    /\ arg_type = << >>
    /\ h = NewHandler
    /\ loaded_types = << >>
    /\ default_schemas = << >>
    /\ opened = << >>
    /\ pc = "start"
    /\ all_tables = << >>
    /\ table_idx = 0
    /\ temp_dir \in { AbsentTemp, StaleTemp }
    /\ output_dir \in { EmptyOutput, StaleOutput }
    /\ copy_dest \in { [enabled |-> b, data |-> << >>] : b \in BOOLEAN }
    /\ targets \in TargetChoices
    /\ fatal = NoFatal

\* if os.path.exists(TEMP_DIR): shutil.rmtree(TEMP_DIR); os.makedirs(TEMP_DIR)
Start ==
    /\ pc = "start"
    /\ temp_dir' = EmptyTemp
    /\ pc' = "read"
    /\ UNCHANGED << encoder_args, opened, h, loaded_types, default_schemas, all_tables, table_idx,
                    output_dir, copy_dest, targets, fatal >>

\* reader = ConfigReader(...); all_tables = reader.read_all()
ReadAll ==
    /\ pc = "read"
    /\ \E listing \in Listings :
          /\ all_tables' = [i \in 1..Len(listing) |-> ConfigTable(listing[i], i)]
          /\ loaded_types' = register_main_types(SampleTypes, all_tables', 1)
    /\ default_schemas' = SampleSchemas
    /\ table_idx' = 1
    /\ pc' = IF all_tables' = << >> THEN "codegen" ELSE "encode"
    /\ UNCHANGED << encoder_args, opened, h, temp_dir, output_dir, copy_dest, targets, fatal >>

\* read_all raises on a workbook that lacks a column of its field sequence
ReadAllRaise ==
    /\ pc = "read"
    /\ loaded_types' = SampleTypes
    /\ default_schemas' = SampleSchemas
    /\ fatal' = [stage |-> "read", err |-> "ValueError"]
    /\ pc' = "finally"
    /\ UNCHANGED << encoder_args, opened, h, all_tables, table_idx, temp_dir, output_dir, copy_dest, targets >>

\* one round of "for table in all_tables"; an exception of write leaves the
\* loop and the try block.  h is the handler of this round's write.
EncodeTable ==
    /\ pc = "encode"
    /\ h' = write(loaded_types, all_tables[table_idx])
    /\ temp_dir' = store_artifacts(temp_dir, all_tables[table_idx], h')
    /\ IF h'.err = "none"
       THEN /\ table_idx' = table_idx + 1
            /\ pc' = IF table_idx = Len(all_tables) THEN "codegen" ELSE "encode"
            /\ fatal' = fatal
       ELSE /\ table_idx' = table_idx
            /\ pc' = "finally"
            /\ fatal' = [stage |-> "encode", err |-> h'.err]
    /\ UNCHANGED << encoder_args, opened, loaded_types, default_schemas, all_tables, output_dir, copy_dest, targets >>

\* one round of "for target in cfg.get('targets', [])"
RunTarget ==
    /\ pc = "codegen"
    /\ targets # << >>
    /\ LET target == Head(targets)
       IN  IF ~target.enabled
           THEN UNCHANGED << loaded_types, temp_dir, fatal, pc >>
           ELSE IF target.language \notin SupportedLanguages
           THEN /\ fatal' = [stage |-> "codegen", err |-> "ImportError"]
                /\ pc' = "finally"
                /\ UNCHANGED << loaded_types, temp_dir >>
           ELSE /\ loaded_types' = IF target.language = << "j", "a", "v", "a", "s", "c", "r", "i", "p", "t" >>
                                   THEN javascript_generate_all(loaded_types, all_tables, 1)
                                   ELSE loaded_types
                /\ temp_dir' = [temp_dir EXCEPT !.code = @ \cup { target.language }]
                /\ UNCHANGED << fatal, pc >>
    /\ targets' = Tail(targets)
    /\ UNCHANGED << encoder_args, opened, h, default_schemas, all_tables, table_idx, output_dir, copy_dest >>

\* shutil.copytree(TEMP_DIR, OUTPUT_DIR, dirs_exist_ok=True), then the copy of
\* output/data to BINARY_COPY_DEST when one is configured (output/data exists
\* by then: it was made in the temporary directory)
Publish ==
    /\ pc = "codegen"
    /\ targets = << >>
    /\ output_dir' = [data |-> copytree(temp_dir.data, output_dir.data),
                      layout |-> copytree(temp_dir.layout, output_dir.layout),
                      code |-> temp_dir.code \cup output_dir.code]
    /\ copy_dest' = IF copy_dest.enabled
                    THEN [copy_dest EXCEPT !.data = copytree(output_dir'.data, @)]
                    ELSE copy_dest
    /\ pc' = "finally"
    /\ UNCHANGED << encoder_args, opened, h, loaded_types, default_schemas, all_tables, table_idx,
                    temp_dir, targets, fatal >>

\* the temporary directory is removed at the end of the try block only
FinallyOnSuccess ==
    /\ pc = "finally"
    /\ temp_dir' = IF fatal = NoFatal THEN AbsentTemp ELSE temp_dir
    /\ pc' = "done"
    /\ UNCHANGED << encoder_args, opened, h, loaded_types, default_schemas, all_tables, table_idx,
                    output_dir, copy_dest, targets, fatal >>

\* finally: if os.path.exists(TEMP_DIR): shutil.rmtree(TEMP_DIR)
Finally ==
    /\ pc = "finally"
    /\ temp_dir' = AbsentTemp
    /\ pc' = "done"
    /\ UNCHANGED << encoder_args, opened, h, loaded_types, default_schemas, all_tables, table_idx,
                    output_dir, copy_dest, targets, fatal >>

Next ==
    \/ Start
    \/ ReadAll
    \/ ReadAllRaise
    \/ EncodeTable
    \/ RunTarget
    \/ Publish
    \/ Finally

Spec == Init /\ [][Next]_vars

(***************************************************************************)
(* Claims about the table layout and the generate command.                 *)
(***************************************************************************)
RECURSIVE CellsBytes(_, _, _, _)
\* the encodings of the cells of one row (or of the properties' values),
\* each by a handler of its own, one after the other
CellsBytes(types, cells, rows, j) ==
    IF j > Len(rows) THEN << >>
    ELSE write_value(NewHandler, types, cells[j], rows[j].type_syntax, rows[j].key).buffer
         \o CellsBytes(types, cells, rows, j + 1)

RECURSIVE RowsBytes(_, _, _, _)
RowsBytes(types, rows, data_rows, i) ==
    IF i > Len(data_rows) THEN << >>
    ELSE CellsBytes(types, data_rows[i], rows, 1) \o RowsBytes(types, rows, data_rows, i + 1)

TableLayout(types, t) ==
    IF t.is_flat_table
    THEN CellsBytes(types, [k \in 1..Len(t.rows) |-> t.rows[k].value], t.rows, 1)
    ELSE LEBytes(Len(t.data_rows), 4) \o RowsBytes(types, t.rows, t.data_rows, 1)

\* C7: the .dat file of an encoded table is, for a standard table, the 4-byte
\* count of its data rows and then the rows in order, each the encodings of
\* its cells in the order of the field sequence; for a flat table it is the
\* encodings of the properties in declaration order and no count.
C7_TableLayout ==
    \A i \in 1..Len(all_tables) :
        LET t == all_tables[i]
        IN  /\ t.base_name \in DOMAIN temp_dir.data
                 => temp_dir.data[t.base_name] = TableLayout(loaded_types, t)
            /\ (pc = "encode" /\ i = table_idx - 1)
                 => h.buffer = TableLayout(loaded_types, t)
            /\ (pc = "done" /\ fatal = NoFatal)
                 => /\ t.base_name \in DOMAIN output_dir.data
                    /\ output_dir.data[t.base_name] = TableLayout(loaded_types, t)

\* a two-row standard table and a flat table, published
C7_Witness ==
    /\ pc = "done"
    /\ fatal = NoFatal
    /\ Len(all_tables) = 2
    /\ Len(all_tables[1].data_rows) = 2
    /\ all_tables[2].is_flat_table
    /\ output_dir.data[BaseName(1)]
         = << 2, 0, 0, 0,  1, 0, 0, 0,  2, 0, 0, 0, 1, 0, 0, 0, 2, 0, 0, 0,  1, 0, 0, 0,
              2, 0, 0, 0,  0, 0, 0, 0,  2, 0, 0, 0 >>
    /\ output_dir.data[BaseName(2)]
         = << 12, 0, 0, 0,  2, 0, 0, 0, 195, 169,  2, 0, 0, 0, 1, 0, 0, 0, 2, 0, 0, 0 >>

\* C9: when the encoding of one table of a run has failed, every table of
\* the run that encodes without error has its binary and its layout file in
\* the output directory at the end of the run.
C9_SiblingTablesSurvive ==
    (pc = "done" /\ fatal.stage = "encode")
    => \A i \in 1..Len(all_tables) :
          LET t == all_tables[i]
              w == write(loaded_types, t)
          IN  w.err = "none"
              => /\ t.base_name \in DOMAIN output_dir.data
                 /\ output_dir.data[t.base_name] = w.buffer
                 /\ t.base_name \in DOMAIN output_dir.layout
                 /\ output_dir.layout[t.base_name] = get_content(w.lines, 1)

SameFile(dir1, dir2, name) ==
    /\ name \in DOMAIN dir1 <=> name \in DOMAIN dir2
    /\ name \in DOMAIN dir1 => dir1[name] = dir2[name]

\* C10: a table whose encoding raises has no .dat file in the temporary
\* directory, and no step of the run touches its .dat file in the output
\* directory or in the copy destination.
C10_NoPartialArtifact ==
    [][ \A i \in 1..Len(all_tables') :
           LET t == all_tables'[i]
           IN  write(loaded_types', t).err # "none"
               => /\ t.base_name \notin DOMAIN temp_dir'.data
                  /\ SameFile(output_dir'.data, output_dir.data, t.base_name)
                  /\ SameFile(copy_dest'.data, copy_dest.data, t.base_name)
      ]_vars

\* the run has ended on a table that raised after 24 bytes were in its buffer
C10_Witness ==
    /\ pc = "done"
    /\ fatal = [stage |-> "encode", err |-> "ValueError"]
    /\ h.err = "ValueError"
    /\ Len(h.buffer) = 24
    /\ table_idx = 2
    /\ BaseName(2) \notin DOMAIN output_dir.data

(***************************************************************************)
(* Claims about type resolution.                                           *)
(***************************************************************************)
RECURSIVE LeafName(_)
\* the name left of a type string when its collection wrappers are taken off
LeafName(type_str) ==
    LET pt == parse_type_string(type_str)
    IN  IF pt.collection_type = << >> THEN type_str ELSE LeafName(pt.inner)

UnresolvedLeaf(types, type_syntax_str) ==
    LET p == parse_unified_syntax(type_syntax_str)
    IN  /\ p.err = "none"
        /\ LeafName(p.type_str) \notin Primitives
        /\ LeafName(p.type_str) \notin DOMAIN types

\* C11: a value written against a type whose leaf name is no primitive and
\* no registered type ends in an error, whatever the value is (None, the
\* empty text and the empty list included).
C11_UnknownTypeRaises ==
    (Called /\ UnresolvedLeaf(loaded_types, arg_type)) => h.err # "none"

(***************************************************************************)
(* The type registry (readers.py, TypeSystem).  A definition file is       *)
(* [valid, ImportTypes, TypeDefines, SourceSchemas], the last two as the    *)
(* pairs of the JSON object in file order.  _loaded_types holds the set of *)
(* loaded files under the key "@@files", as in the code.                   *)
(***************************************************************************)
FilesKey == << "@", "@", "f", "i", "l", "e", "s" >>

RECURSIVE NormSegments(_, _, _)
\* os.path.normpath on the segments: "" and "." are dropped, ".." takes one off
NormSegments(segs, i, acc) ==
    IF i > Len(segs) THEN acc
    ELSE IF segs[i] = << >> \/ segs[i] = << "." >> THEN NormSegments(segs, i + 1, acc)
    ELSE IF segs[i] = << ".", "." >> /\ acc # << >>
    THEN NormSegments(segs, i + 1, SubSeq(acc, 1, Len(acc) - 1))
    ELSE NormSegments(segs, i + 1, Append(acc, segs[i]))

RECURSIVE JoinPath(_, _)
JoinPath(segs, i) ==
    IF i > Len(segs) THEN << >>
    ELSE IF i = Len(segs) THEN segs[i]
    ELSE segs[i] \o << "/" >> \o JoinPath(segs, i + 1)

\* os.path.abspath(os.path.join(metadata_dir, rel + suffix)), written from the
\* metadata directory and without the suffix
abspath(rel_path_from_meta) ==
    JoinPath(NormSegments(Split(rel_path_from_meta, << "/" >>), 1, << >>), 1)

TypeDefFile(imports, defines, schemas) ==
    [valid |-> TRUE, ImportTypes |-> imports, TypeDefines |-> defines, SourceSchemas |-> schemas]

OneField(type) == StructDef(<< Field(<< "v" >>, type) >>)

\* the .innertypesdef.json files of the metadata directory: A and B import
\* each other, C imports itself and both, D imports a file that is missing,
\* E is no JSON
MetadataDir ==
    (<< "A" >> :> TypeDefFile(<< << "B" >> >>,
                          << << << "T" >>, OneField(StrInt) >>, << << "O", "n", "l", "y", "A" >>, OneField(StrInt) >> >>,
                          << << << "l", "i", "s", "t", "(", "i", "n", "t", ")" >>, << PyStr(<< "~" >>) >> >> >>))
    @@ (<< "B" >> :> TypeDefFile(<< << ".", "/", "A" >> >>,
                             << << << "T" >>, OneField(StrLong) >>, << << "O", "n", "l", "y", "B" >>, OneField(StrLong) >> >>,
                             << << << "l", "i", "s", "t", "(", "i", "n", "t", ")" >>, << PyStr(<< "#" >>) >> >> >>))
    @@ (<< "C" >> :> TypeDefFile(<< << "C" >>, << "s", "u", "b", "/", ".", ".", "/", "A" >>, << "B" >> >>,
                             << << << "T" >>, OneField(StrString) >> >>, << >>))
    @@ (<< "D" >> :> TypeDefFile(<< << "M", "i", "s", "s", "i", "n", "g" >> >>, << << << "O", "n", "l", "y", "D" >>, OneField(StrBool) >> >>, << >>))
    @@ (<< "E" >> :> [valid |-> FALSE, ImportTypes |-> << >>, TypeDefines |-> << >>, SourceSchemas |-> << >>])

LoadPaths == { << "A" >>, << ".", "/", "A" >>, << "B" >>, << "s", "u", "b", "/", ".", ".", "/", "B" >>, << "C" >>, << "D" >>, << "E" >> }

\* self._loaded_types.get("@@files", set())
loaded_files(types) == IF FilesKey \in DOMAIN types THEN types[FilesKey] ELSE {}

\* the file is read again whatever was loaded before
already_loaded_never(types, abs_path) == FALSE

\* if abs_path in self._loaded_types.get("@@files", set()): return
already_loaded(types, abs_path) == abs_path \in loaded_files(types)

\* d[key] = value on a dict
SetItem(d, key, value) == (key :> value) @@ d

RECURSIVE register_all(_, _, _)
\* for name, info in pairs: d[name] = info
register_all(d, pairs, i) ==
    IF i > Len(pairs) THEN d
    ELSE register_all(SetItem(d, pairs[i][1], pairs[i][2]), pairs, i + 1)

\* the TypeDefines and then the SourceSchemas of a file, once its imports are in
register_own(reg, file) ==
    IF reg.err # "none" THEN reg
    ELSE [reg EXCEPT !.types = register_all(@, file.TypeDefines, 1),
                     !.schemas = register_all(@, file.SourceSchemas, 1)]

RECURSIVE load_type_def(_, _, _)
RECURSIVE load_imports(_, _, _, _)
\* TypeSystem.load_type_def on reg = [types, schemas, opened, err]; depth is
\* the room left on the interpreter's stack
load_type_def(reg, rel_path_from_meta, depth) ==
    IF reg.err # "none" THEN reg
    ELSE IF depth = 0 THEN [reg EXCEPT !.err = "RecursionError"]
    ELSE IF already_loaded(reg.types, abspath(rel_path_from_meta)) THEN reg
    ELSE IF abspath(rel_path_from_meta) \notin DOMAIN MetadataDir
    THEN [reg EXCEPT !.err = "FileNotFoundError"]
    ELSE IF ~MetadataDir[abspath(rel_path_from_meta)].valid
    THEN [reg EXCEPT !.err = "ValueError",
                     !.opened = Append(@, abspath(rel_path_from_meta))]
    ELSE register_own(
             load_imports(
                 [reg EXCEPT !.types = SetItem(@, FilesKey,
                                               loaded_files(reg.types) \cup { abspath(rel_path_from_meta) }),
                             !.opened = Append(@, abspath(rel_path_from_meta))],
                 MetadataDir[abspath(rel_path_from_meta)].ImportTypes, 1, depth - 1),
             MetadataDir[abspath(rel_path_from_meta)])
\* for p in data.get("ImportTypes", []): self.load_type_def(p, silent)
load_imports(reg, imports, i, depth) ==
    IF i > Len(imports) \/ reg.err # "none" THEN reg
    ELSE load_imports(load_type_def(reg, imports[i], depth), imports, i + 1, depth)

\* if main_type_name not in self.type_system._loaded_types: register it
register_main_type(types, main_type_name, main_type_def) ==
    IF main_type_name \in DOMAIN types THEN types
    ELSE SetItem(types, main_type_name, main_type_def)

RegistryInit ==
    /\ GenerateIdle
    /\ op = "init" /\ arg_value = [t |-> "none"] /\ arg_type = << >>
    /\ h = NewHandler
    /\ loaded_types = << >>
    /\ default_schemas = << >>

\* one call of load_type_def from outside; an exception leaves the registry
\* as the call left it and is recorded in fatal
Load ==
    \E rel \in LoadPaths :
        /\ op' = "load_type_def"
        /\ arg_type' = rel
        /\ arg_value' = None
        /\ \E r \in { load_type_def([types |-> loaded_types, schemas |-> default_schemas,
                                     opened |-> opened, err |-> "none"], rel, MaxDepth) } :
              /\ loaded_types' = r.types
              /\ default_schemas' = r.schemas
              /\ opened' = r.opened
              /\ fatal' = [stage |-> "load_type_def", err |-> r.err]
        /\ Len(opened') <= MaxDepth
        /\ UNCHANGED << h, pc, all_tables, table_idx, temp_dir, output_dir, copy_dest, targets >>

\* read_all registers a workbook's own type when its name is still free
RegisterMainType ==
    \E name \in { << "T" >>, << "M" >> }, def \in { OneField(StrFloat), OneField(StrBool) } :
        /\ op' = "register_main_type"
        /\ arg_type' = name
        /\ arg_value' = def
        /\ loaded_types' = register_main_type(loaded_types, name, def)
        /\ fatal' = NoFatal
        /\ UNCHANGED << h, default_schemas, opened, pc, all_tables, table_idx, temp_dir, output_dir, copy_dest, targets >>

\* one lookup of a name in the registry; the definition or the ValueError
GetType ==
    \E name \in { << "T" >>, << "F", "o", "o" >>, StrInt, << "l", "i", "s", "t", "(", "i", "n", "t", ")" >>,
                  << "a", "r", "r", "a", "y", "(", "F", "o", "o", ")" >>, << "s", "e", "t", "(", "T", ")" >> } :
        /\ op' = "get_type"
        /\ arg_type' = name
        /\ arg_value' = get_type(loaded_types, name)
        /\ fatal' = [stage |-> "get_type",
                     err |-> IF arg_value'.ok THEN "none" ELSE "ValueError"]
        /\ UNCHANGED << h, loaded_types, default_schemas, opened, pc, all_tables, table_idx,
                        temp_dir, output_dir, copy_dest, targets >>

RegistryNext == Load \/ RegisterMainType \/ GetType

SpecRegistry == RegistryInit /\ [][RegistryNext]_vars

RECURSIVE Count(_, _, _)
Count(seq, x, i) ==
    IF i > Len(seq) THEN 0
    ELSE (IF seq[i] = x THEN 1 ELSE 0) + Count(seq, x, i + 1)

\* the sources of the import cycle A -> B -> ./A
ImportCycle == { << "A" >>, << "B" >> }

LoadStep == op' = "load_type_def"

\* C12: loading a source that is loaded already, under any spelling of its
\* path, changes neither the types nor the default schemas and opens no file;
\* a load never runs out of stack on an import cycle, and when it returns
\* every loaded source has been opened exactly once, both sources of an
\* import cycle included.
C12_LoadIdempotent ==
    [][LoadStep =>
          /\ already_loaded(loaded_types, abspath(arg_type')) =>
                 /\ loaded_types' = loaded_types
                 /\ default_schemas' = default_schemas
                 /\ opened' = opened
                 /\ fatal'.err = "none"
          /\ fatal'.err # "RecursionError"
          /\ \A f \in loaded_files(loaded_types') : Count(opened', f, 1) = 1
          /\ (fatal'.err = "none" /\ abspath(arg_type') \in ImportCycle) =>
                 ImportCycle \subseteq loaded_files(loaded_types')]_vars

\* B is asked for again after the cycle A -> B -> ./A was loaded from A
C12_Witness ==
    /\ op = "load_type_def"
    /\ arg_type = << "s", "u", "b", "/", ".", ".", "/", "B" >>
    /\ opened = << << "A" >>, << "B" >> >>
    /\ fatal.err = "none"
    /\ loaded_files(loaded_types) = { << "A" >>, << "B" >> }

\* C13: the definition registered last under a name is the one a lookup
\* returns; in particular, once the reader has registered a standard table's
\* main type, the name resolves to that table's definition.
C13_LastWriteWins ==
    [][op' = "register_main_type" => get_type(loaded_types', arg_type').def = arg_value']_vars

SameContent(t1, t2) ==
    /\ t1.is_flat_table = t2.is_flat_table
    /\ t1.rows = t2.rows
    /\ t1.data_rows = t2.data_rows

\* C14: a round of the encoding loop leaves the registry and the tables as
\* they were, and tables of the same content get the same bytes whatever was
\* written before them in the run.
C14_WritePure ==
    [][pc = "encode" =>
          /\ loaded_types' = loaded_types
          /\ default_schemas' = default_schemas
          /\ all_tables' = all_tables
          /\ \A i, j \in 1..Len(all_tables) :
                (/\ all_tables[i].base_name \in DOMAIN temp_dir'.data
                 /\ all_tables[j].base_name \in DOMAIN temp_dir'.data
                 /\ SameContent(all_tables[i], all_tables[j]))
                => temp_dir'.data[all_tables[i].base_name] = temp_dir'.data[all_tables[j].base_name]]_vars

\* the same two-row table was encoded twice, after each other
C14_Witness ==
    /\ pc = "codegen"
    /\ Len(all_tables) = 2
    /\ SameContent(all_tables[1], StandardTable(<< GoodRow1, GoodRow2 >>))
    /\ SameContent(all_tables[2], all_tables[1])
    /\ all_tables[1].base_name \in DOMAIN temp_dir.data
    /\ all_tables[2].base_name \in DOMAIN temp_dir.data
    /\ Len(temp_dir.data[all_tables[2].base_name]) > 4

\* C15: a round of the loop over the targets, whatever its language, leaves
\* every registered type definition as it was.
C15_EmittersReadOnly ==
    [][pc = "codegen" => loaded_types' = loaded_types]_vars

\* the bracketed suffix of a type syntax, when it has one
BracketSuffix(type_syntax_str) ==
    LET t == Strip(type_syntax_str)
    IN  IF FindChar(t, "[", 1) # 0 /\ EndsWith(t, << "]" >>)
        THEN SubSeq(t, FindChar(t, "[", 1), Len(t)) ELSE << >>

MalformedSuffix(type_syntax_str) ==
    /\ BracketSuffix(type_syntax_str) # << >>
    /\ ~JsonLoads(BracketSuffix(type_syntax_str)).ok

\* C16: a value written against a type syntax whose bracketed suffix is no
\* JSON ends in a ValueError that carries the suffix; no byte and no trace
\* line is written for it, and the registry is what it was.
C16_MalformedSuffixRaises ==
    [][(op' = "write_value" /\ MalformedSuffix(arg_type')) =>
          /\ h'.err = "ValueError"
          /\ parse_unified_syntax(arg_type').text = BracketSuffix(arg_type')
          /\ h'.buffer = << >>
          /\ h'.lines = << >>
          /\ loaded_types' = loaded_types
          /\ default_schemas' = default_schemas]_vars

\* "1~2" written against list(int)[~]
C16_Witness ==
    /\ Called
    /\ arg_type = << "l", "i", "s", "t", "(", "i", "n", "t", ")", "[", "~", "]" >>
    /\ arg_value = PyStr(<< "1", "~", "2" >>)
    /\ h.err = "ValueError"

(***************************************************************************)
(* The reader of a standard table (readers.py, _parse_standard_table).  A  *)
(* sheet is its header row (row 2) and its rows from row 3 on, every row   *)
(* as wide as the header.                                                   *)
(***************************************************************************)
RECURSIVE field_rows(_, _)
\* for field_def in field_definitions: skip a missing or empty Field, Type
\* defaults to "string"
field_rows(field_definitions, i) ==
    IF i > Len(field_definitions) THEN << >>
    ELSE IF "Field" \notin DOMAIN field_definitions[i] \/ field_definitions[i].Field = << >>
    THEN field_rows(field_definitions, i + 1)
    ELSE << ConfigRow(field_definitions[i].Field,
                      IF "Type" \in DOMAIN field_definitions[i]
                      THEN field_definitions[i].Type ELSE StrString,
                      None) >> \o field_rows(field_definitions, i + 1)

\* headers.get(key) on {c.value: i for i, c in enumerate(sheet[2]) if c.value}:
\* the last column of that name, 0 for None
header_index(header, key) ==
    IF \E i \in 1..Len(header) : header[i] = PyStr(key) /\ Truthy(header[i])
    THEN CHOOSE i \in 1..Len(header) :
             /\ header[i] = PyStr(key)
             /\ \A k \in (i + 1)..Len(header) : header[k] # PyStr(key)
    ELSE 0

RECURSIVE read_data_rows(_, _, _, _)
\* the loop over sheet.iter_rows(min_row=3): a row of None only is skipped,
\* a field without a column raises while a row is being put in order
read_data_rows(header, sheet_rows, fields, i) ==
    IF i > Len(sheet_rows) THEN [data_rows |-> << >>, err |-> "none", field |-> << >>]
    ELSE IF \A c \in 1..Len(sheet_rows[i]) : IsNone(sheet_rows[i][c])
    THEN read_data_rows(header, sheet_rows, fields, i + 1)
    ELSE IF \E j \in 1..Len(fields) : header_index(header, fields[j].key) = 0
    THEN [data_rows |-> << >>, err |-> "ValueError",
          field |-> fields[CHOOSE j \in 1..Len(fields) :
                               /\ header_index(header, fields[j].key) = 0
                               /\ \A k \in 1..(j - 1) : header_index(header, fields[k].key) # 0].key]
    ELSE LET rest == read_data_rows(header, sheet_rows, fields, i + 1)
         IN  IF rest.err # "none" THEN rest
             ELSE [rest EXCEPT !.data_rows =
                      << [j \in 1..Len(fields) |->
                             sheet_rows[i][header_index(header, fields[j].key)]] >> \o @]

\* _parse_standard_table: the rows of the field sequence and the data rows,
\* or the error and the field it names
parse_standard_table(sheet, field_definitions) ==
    [rows |-> field_rows(field_definitions, 1),
     read |-> read_data_rows(sheet.header, sheet.rows, field_rows(field_definitions, 1), 1)]

SheetWidth == 2
MaxSheetRows == 2
Sheets ==
    { [header |-> hd, rows |-> rs] :
          hd \in [1..SheetWidth -> { None, PyStr(<< "I", "d" >>), PyStr(<< "T", "a", "g", "s" >>) }],
          rs \in UNION { [1..n -> [1..SheetWidth -> { None, PyStr(<< "1" >>) }]] : n \in 0..MaxSheetRows } }
FieldSequences ==
    { << Field(<< "I", "d" >>, StrInt) >>,
      << Field(<< "I", "d" >>, StrInt), Field(<< "T", "a", "g", "s" >>, << "l", "i", "s", "t", "(", "i", "n", "t", ")", "[", "\"", "~", "\"", "]" >>) >>,
      << Field(<< "T", "a", "g", "s" >>, << "l", "i", "s", "t", "(", "i", "n", "t", ")", "[", "\"", "~", "\"", "]" >>), [Type |-> StrInt], [Field |-> << "I", "d" >>] >> }

ReaderInit ==
    /\ GenerateIdle
    /\ op = "input"
    /\ arg_value \in Sheets
    /\ arg_type \in FieldSequences
    /\ h = NewHandler
    /\ loaded_types = << >>
    /\ default_schemas = << >>

\* the reader parses the sheet of one standard workbook, T1.xlsx
ParseStandardTable ==
    /\ op = "input"
    /\ op' = "parse_standard_table"
    /\ \E r \in { parse_standard_table(arg_value, arg_type) } :
          IF r.read.err = "none"
          THEN /\ all_tables' = << ConfigTable([is_flat_table |-> FALSE, rows |-> r.rows,
                                                data_rows |-> r.read.data_rows], 1) >>
               /\ fatal' = NoFatal
          ELSE /\ all_tables' = all_tables
               /\ fatal' = [stage |-> "read", err |-> r.read.err, field |-> r.read.field,
                            table |-> BaseName(1) \o << ".", "x", "l", "s", "x" >>]
    /\ UNCHANGED << arg_value, arg_type, h, loaded_types, default_schemas, opened, pc,
                    table_idx, temp_dir, output_dir, copy_dest, targets >>

SpecReader == ReaderInit /\ [][ParseStandardTable]_vars

DeclaredFields(field_definitions) ==
    { field_definitions[i].Field : i \in { k \in 1..Len(field_definitions) :
                                             /\ "Field" \in DOMAIN field_definitions[k]
                                             /\ field_definitions[k].Field # << >> } }
ColumnNames(sheet) == { sheet.header[i].s : i \in { k \in 1..Len(sheet.header) : IsStr(sheet.header[k]) } }

\* C17: when a declared field of a standard table has no column in the sheet,
\* reading the table fails with an error naming the table and a missing
\* field, however many data rows the sheet has; a table that was read has one
\* value per declared field in each data row.
C17_MissingColumnRaises ==
    (op = "parse_standard_table") =>
        /\ ~(DeclaredFields(arg_type) \subseteq ColumnNames(arg_value)) =>
              /\ fatal.err = "ValueError"
              /\ fatal.field \in DeclaredFields(arg_type) \ ColumnNames(arg_value)
              /\ fatal.table = BaseName(1) \o << ".", "x", "l", "s", "x" >>
        /\ fatal = NoFatal =>
              \A i \in 1..Len(all_tables[1].data_rows) :
                  Len(all_tables[1].data_rows[i]) = Len(all_tables[1].rows)

\* C18: a text is split once per collection or struct level of its type and
\* a primitive leaf gets an unsplit scalar: "1#2|3" as Pair{Id: int, Tags:
\* list(int)} with "#" and "|" is 1, count 2, 2, 3, and "a#b~c" as
\* list(string) with "~" and "#" is the two strings "a#b" and "c".
C18_LazyDelimiters ==
    /\ (Called /\ arg_type = << "P", "a", "i", "r", "[", "\"", "#", "\"", ",", "\"", "|", "\"", "]" >> /\ arg_value = PyStr(<< "1", "#", "2", "|", "3" >>))
          => /\ h.err = "none"
             /\ h.buffer = << 1, 0, 0, 0, 2, 0, 0, 0, 2, 0, 0, 0, 3, 0, 0, 0 >>
    /\ (Called /\ arg_type = << "l", "i", "s", "t", "(", "s", "t", "r", "i", "n", "g", ")", "[", "\"", "~", "\"", ",", "\"", "#", "\"", "]" >> /\ arg_value = PyStr(<< "a", "#", "b", "~", "c" >>))
          => /\ h.err = "none"
             /\ h.buffer = << 2, 0, 0, 0 >> \o << 3, 0, 0, 0 >> \o Utf8(<< "a", "#", "b" >>)
                                           \o << 1, 0, 0, 0 >> \o Utf8(<< "c" >>)

\* C19: an enum value that is a number already, an integer or a whole-number
\* float, is written as that number.
C19_NumericEnumAsIs ==
    (Called /\ arg_type = << "Q", "u", "a", "l", "i", "t", "y" >> /\ arg_value.t \in { "int", "float" })
        => /\ h.err = "none"
           /\ h.buffer = LEBytes(IF arg_value.t = "float" THEN arg_value.f ELSE arg_value.n, 4)

\* the positional parts write_value makes of a value for a struct
StructParts(value, type_syntax_str) ==
    IF IsList(value) THEN value.items
    ELSE IF NonEmptyText(value) /\ type_syntax_str = << "I", "t", "e", "m", "[", "\"", "#", "\"", "]" >>
    THEN [i \in 1..Len(Split(value.s, << "#" >>)) |-> PyStr(Split(value.s, << "#" >>)[i])]
    ELSE << >>

PartOrNone(parts, i) == IF i <= Len(parts) THEN parts[i] ELSE None

\* C20: Item{Id: int, Count: int} written from a list, or from a text split
\* on its one delimiter, is the int of part 1 and then the int of part 2; a
\* field without a part is written as from None, parts after the second are
\* not looked at, and an error of a field ends the value there.
C20_StructPositional ==
    /\ (Called /\ arg_type \in { << "I", "t", "e", "m" >>, << "I", "t", "e", "m", "[", "\"", "#", "\"", "]" >> }
               /\ (IsList(arg_value) \/ (NonEmptyText(arg_value) /\ arg_type = << "I", "t", "e", "m", "[", "\"", "#", "\"", "]" >>)))
          => LET parts == StructParts(arg_value, arg_type)
                 want == write_int(write_int(NewHandler, PartOrNone(parts, 1)), PartOrNone(parts, 2))
             IN  h.buffer = want.buffer /\ h.err = want.err
    /\ (Called /\ arg_type = << "I", "t", "e", "m" >> /\ arg_value = PyList(<< PyInt(5), PyInt(10) >>))
          => h.err = "none" /\ h.buffer = << 5, 0, 0, 0, 10, 0, 0, 0 >>
    /\ (Called /\ arg_type = << "I", "t", "e", "m" >> /\ arg_value = PyList(<< PyInt(5) >>))
          => h.err = "none" /\ h.buffer = << 5, 0, 0, 0, 0, 0, 0, 0 >>
    /\ (Called /\ arg_type = << "I", "t", "e", "m", "[", "\"", "#", "\"", "]" >> /\ arg_value = PyStr(<< "5", "#", "6", "#", "7" >>))
          => h.err = "none" /\ h.buffer = << 5, 0, 0, 0, 6, 0, 0, 0 >>

\* one part for two fields: Count is written as the default
C20_Witness ==
    /\ Called
    /\ arg_type = << "I", "t", "e", "m", "[", "\"", "#", "\"", "]" >>
    /\ arg_value = PyStr(<< "2" >>)
    /\ h.buffer = << 2, 0, 0, 0, 0, 0, 0, 0 >>

\* a text that looks like JSON (first non-space character "[" or "{") and is none
BrokenJsonText(value) ==
    /\ IsStr(value)
    /\ (StartsWith(Strip(value.s), << "[" >>) \/ StartsWith(Strip(value.s), << "{" >>))
    /\ ~JsonLoads(value.s).ok

\* a type syntax without delimiters that names int, long, float, a collection
\* or a registered struct
CoercedType(types, type_syntax_str) ==
    LET p == parse_unified_syntax(type_syntax_str)
    IN  /\ p.err = "none"
        /\ p.delimiters = << >>
        /\ \/ p.type_str \in { StrInt, StrLong, StrFloat }
           \/ parse_type_string(p.type_str).collection_type # << >>
           \/ (p.type_str \in DOMAIN types /\ ~types[p.type_str].TargetTypeAsEnum)

\* C21: a text that looks like JSON but does not parse, written with no
\* delimiters against int, long, float, a collection or a struct, ends in an
\* error; it is never written as if the value were absent.
C21_BrokenJsonRaises ==
    (Called /\ BrokenJsonText(arg_value) /\ CoercedType(loaded_types, arg_type))
        => h.err # "none"

\* C22: an empty part of a text, at any nesting level, is an empty
\* collection: in list(list(int)) with "~" and "#", "1#2~" and "1~" have a
\* second inner list of count 0 and no error.
C22_EmptyPartIsEmptyList ==
    /\ (Called /\ arg_type = << "l", "i", "s", "t", "(", "l", "i", "s", "t", "(", "i", "n", "t", ")", ")", "[", "\"", "~", "\"", ",", "\"", "#", "\"", "]" >> /\ arg_value = PyStr(<< "1", "#", "2", "~" >>))
          => /\ h.err = "none"
             /\ h.buffer = << 2, 0, 0, 0, 2, 0, 0, 0, 1, 0, 0, 0, 2, 0, 0, 0, 0, 0, 0, 0 >>
    /\ (Called /\ arg_type = << "l", "i", "s", "t", "(", "l", "i", "s", "t", "(", "i", "n", "t", ")", ")", "[", "\"", "~", "\"", ",", "\"", "#", "\"", "]" >> /\ arg_value = PyStr(<< "1", "~" >>))
          => /\ h.err = "none"
             /\ h.buffer = << 2, 0, 0, 0, 1, 0, 0, 0, 1, 0, 0, 0, 0, 0, 0, 0 >>

LowerText(s) == [i \in 1..Len(s) |-> Lower(s[i])]

\* C23: against bool a text is 1 exactly when it is "true", "1" or "yes" in
\* any letter case and 0 otherwise; another value is 1 exactly when it is a
\* number other than 0 or the boolean true, and None is 0.
C23_BoolCoercion ==
    (Called /\ arg_type = StrBool /\ arg_value.t \in { "str", "none", "int", "float", "bool" })
        => /\ h.err = "none"
           /\ h.buffer = << IF \/ (IsStr(arg_value) /\ LowerText(arg_value.s) \in { << "t", "r", "u", "e" >>, << "1" >>, << "y", "e", "s" >> })
                               \/ (arg_value.t = "int" /\ arg_value.n # 0)
                               \/ (arg_value.t = "float" /\ arg_value.f # 0)
                               \/ (arg_value.t = "bool" /\ arg_value.b)
                            THEN 1 ELSE 0 >>

\* C24: the lookup of a name of the form list(...), array(...) or set(...)
\* that was never registered fails as the lookup of any other unknown name.
C24_NoSynthesizedCollection ==
    (/\ op = "get_type"
     /\ parse_type_string(arg_type).collection_type # << >>
     /\ arg_type \notin DOMAIN loaded_types)
        => fatal.err = "ValueError"

\* C25 as stated: a value written against a struct whose fields lead back to
\* the struct, directly or through a collection-typed field, never comes to
\* an end: the recursion goes on until the stack is used up.
C25_LoopNeverEnds ==
    (Called /\ arg_type \in { << "N", "o", "d", "e" >>, << "T", "r", "e", "e" >> }) => h.err = "RecursionError"

\* C25 amended: a struct with a field of its own type recurses until the
\* stack is used up, for every value, unless a field before it raises; a
\* loop through a collection-typed field goes only as deep as the value is
\* nested and comes to an end without a recursion error.
C25_DirectLoopNeverEnds ==
    /\ (Called /\ arg_type = << "N", "o", "d", "e" >>) => (h.err = "RecursionError" /\ h.buffer = << >>)
    /\ (Called /\ arg_type = << "C", "h", "a", "i", "n" >>) => h.err \in { "RecursionError", "ValueError", "TypeError" }
    /\ (Called /\ arg_type = << "T", "r", "e", "e" >>) => h.err = "none"

\* None against Node used up the stack; nothing was written
C25_Witness ==
    /\ Called
    /\ arg_type = << "N", "o", "d", "e" >>
    /\ arg_value = None
    /\ h.err = "RecursionError"
    /\ h.indent_level = MaxDepth

IsOpenLine(line) == EndsWith(line.text, << " ", "{" >>)
IsCloseLine(line) == line.text = << "}" >>

RECURSIVE ScanScopes(_, _, _)
\* the scope depth after lines i.. of a trace that stood at depth d, or -1
\* when a line is not at the indent of its depth or closes a scope that was
\* not opened
ScanScopes(lines, i, d) ==
    IF i > Len(lines) THEN d
    ELSE IF IsCloseLine(lines[i])
    THEN (IF d = 0 \/ lines[i].indent # d - 1 THEN -1 ELSE ScanScopes(lines, i + 1, d - 1))
    ELSE IF lines[i].indent # d THEN -1
    ELSE ScanScopes(lines, i + 1, IF IsOpenLine(lines[i]) THEN d + 1 ELSE d)

\* line is "[int] <name>_count = <n>" and next opens the scope "<name>: ... {"
IsCountLineOf(line, next) ==
    /\ IsOpenLine(next)
    /\ StartsWith(line.text, << "[", "i", "n", "t", "]", " " >>)
    /\ \E k \in 7..Len(line.text) :
          /\ StartsWith(SubSeq(line.text, k, Len(line.text)),
                        << "_", "c", "o", "u", "n", "t", " ", "=", " " >>)
          /\ StartsWith(next.text, SubSeq(line.text, 7, k - 1) \o << ":", " " >>)

\* the trace entries right below the outermost scope, one per element: the
\* line of a primitive, or the opening of the scope of a struct or of a
\* collection (whose count line goes with it)
TopEntries(lines) ==
    Cardinality({ i \in 1..Len(lines) :
                    /\ lines[i].indent = 1
                    /\ ~IsCloseLine(lines[i])
                    /\ ~(i < Len(lines) /\ IsCountLineOf(lines[i], lines[i + 1])) })

\* C26: the trace of a value is well nested at every moment: no line closes
\* a scope that is not open, every line stands at the indent of its depth,
\* and after a successful write all scopes are closed and the indent is 0.
\* The trace of a collection is its count under <field>_count, the opening
\* of its scope, one entry per element and the closing of the scope.  No
\* tracing operation changes the byte buffer.
C26_TraceWellNested ==
    Called =>
        /\ h.indent_level >= 0
        /\ ScanScopes(h.lines, 1, 0) = h.indent_level
        /\ h.err = "none" => h.indent_level = 0
        /\ (h.err = "none" /\ parse_type_string(parse_unified_syntax(arg_type).type_str).collection_type # << >>)
              => /\ Len(h.lines) >= 3
                 /\ h.lines[1].text = << "[", "i", "n", "t", "]", " ", "X", "_", "c", "o", "u", "n", "t", " ", "=", " " >> \o IntToStr(TopEntries(h.lines))
                 /\ h.lines[2].text = << "X", ":", " " >> \o parse_unified_syntax(arg_type).type_str \o << " ", "{" >>
                 /\ LEValue(SubSeq(h.buffer, 1, 4)) = TopEntries(h.lines)
                 /\ IsCloseLine(h.lines[Len(h.lines)])
        /\ log(h, StrInt, ColX, PyInt(1)).buffer = h.buffer
        /\ enter_scope(h, ColX).buffer = h.buffer
        /\ exit_scope(enter_scope(h, ColX)).buffer = h.buffer

\* a list of two lists was traced: two scopes inside the outer one
C26_Witness ==
    /\ Called
    /\ arg_type = << "l", "i", "s", "t", "(", "l", "i", "s", "t", "(", "i", "n", "t", ")", ")", "[", "\"", "~", "\"", ",", "\"", "#", "\"", "]" >>
    /\ arg_value = PyStr(<< "1", "~", "2" >>)
    /\ h.err = "none"
    /\ Len(h.lines) = 11
    /\ h.indent_level = 0

\* the names a definition file registers of its own
OwnNames(pairs) == { pairs[i][1] : i \in 1..Len(pairs) }

\* C27: between calls, every source that counts as loaded has all of its own
\* type definitions and default schemas in the registry, also after loads
\* that raised.
C27_LoadedMeansRegistered ==
    \A f \in loaded_files(loaded_types) :
        /\ OwnNames(MetadataDir[f].TypeDefines) \subseteq DOMAIN loaded_types
        /\ OwnNames(MetadataDir[f].SourceSchemas) \subseteq DOMAIN default_schemas

\* C28: a struct whose field is declared as list(int)["~"] is encoded with
\* that field as a list of int: None gives count 0, a list of one list gives
\* the count and the ints, and the field's type is resolved without error.
C28_FieldSuffixIsNoTypeName ==
    /\ (Called /\ arg_type = << "B", "a", "g" >> /\ arg_value = None)
          => (h.err = "none" /\ h.buffer = << 0, 0, 0, 0 >>)
    /\ (Called /\ arg_type = << "B", "a", "g" >> /\ arg_value = PyList(<< PyList(<< PyInt(1) >>), PyList(<< >>) >>))
          => (h.err = "none" /\ h.buffer = << 1, 0, 0, 0, 1, 0, 0, 0 >>)

\* C29: a non-empty text written against string with no delimiters is its
\* UTF-8 length and its UTF-8 bytes, whatever the text looks like.
C29_StringPayloadIsRawText ==
    (Called /\ arg_type = StrString /\ NonEmptyText(arg_value))
        => /\ h.err = "none"
           /\ h.buffer = LEBytes(Len(Utf8(arg_value.s)), 4) \o Utf8(arg_value.s)

=============================================================================
